---- MODULE Spec2Model ----
(***************************************************************************)
(* Control plane of the OmniNode grid controller: the simulation facade    *)
(* (PowerGridSimulation), the actuator endpoints, the zone protection      *)
(* engine, the monitoring loop and the strategic agent.                    *)
(*                                                                         *)
(* Units.  Every measured value is an integer in hundredths of the unit    *)
(* the code uses: a voltage of 0.95 p.u. is 95, a loading of 100 % is      *)
(* 10000, a frequency of 60 Hz is 6000.  The literal 1.0 is One (100) and  *)
(* the literal 0.05 is Eps (5).  Load and generator setpoints are small    *)
(* integer levels.                                                         *)
(*                                                                         *)
(* The numerical solver (pandapower) is external to the repository.  It is *)
(* modelled by Solve, a deterministic function of the network inputs over  *)
(* a four-bus radial network: bus 4 (slack, zone1) - line 0 - bus 5        *)
(* (zone1) - line 1 - bus 15 (zone2), and an unconnected bus 25 (zone3).   *)
(***************************************************************************)
EXTENDS Integers, Sequences, FiniteSets, TLC

VARIABLES grid, last, nops, consecutive, zlast, hist, zthr, mon, agent, validation_log,
          glast, zlate, tl, mloop, servers, now, sweep_at, catalog, dlast,
          channels, published, received, registered_at, audit, rlast, route, protection, storage, clast

(***************************************************************************)
(* Bounds of the model.                                                    *)
(***************************************************************************)
MaxLevel == 3
MaxGen == 2
MaxOps == 3
MaxControls == 2
MaxCycles == 2
MaxTimeouts == 1
MaxStops == 2
ToolCallsPerReply == 2
MaxTicks == 9
MaxPublished == 5
QueueMaxSize == 2
MaxEvents == 1

(***************************************************************************)
(* Program constants, in hundredths.                                       *)
(***************************************************************************)
One == 100
Eps == 5
VMin == 95
VMax == 105
VCritLow == 90
VCritHigh == 110
LoadingLimit == 10000
LoadingCrit == 12000
BaseFrequency == 6000
FreqBand == 50
FreqCrit == 100
DroopGain == 300

NaN == 0 - 1
None == 0 - 2

(***************************************************************************)
(* Topology of the modelled network (case data, constant).                 *)
(***************************************************************************)
Buses == {4, 5, 15, 25}
Lines == {0, 1}
LineFrom == (0 :> 4) @@ (1 :> 5)
LineTo == (0 :> 5) @@ (1 :> 15)
Gens == {0}
GenBus == (0 :> 15)
Shunts == {0, 1}
ShuntBus == (0 :> 5) @@ (1 :> 15)
LoadIds == {0, 1, 2}
LoadBusOf == (0 :> 5) @@ (1 :> 15) @@ (2 :> 4)

Max(a, b) == IF a >= b THEN a ELSE b
Abs(a) == IF a >= 0 THEN a ELSE 0 - a

(* Float comparisons: every comparison with NaN is false. *)
Lt(a, b) == a # NaN /\ b # NaN /\ a < b
Gt(a, b) == a # NaN /\ b # NaN /\ a > b

(***************************************************************************)
(* The external solver.                                                    *)
(***************************************************************************)
LoadAt(net, b) ==
    LET ids == {i \in DOMAIN net.load : LoadBusOf[i] = b}
        RECURSIVE Sum(_)
        Sum(S) == IF S = {} THEN 0
                  ELSE LET i == CHOOSE x \in S : TRUE IN net.load[i] + Sum(S \ {i})
    IN Sum(ids)

Energized(net, b) ==
    CASE b = 4 -> TRUE
      [] b = 5 -> net.line[0]
      [] b = 15 -> net.line[0] /\ net.line[1]
      [] OTHER -> FALSE

Served(net, b) == IF Energized(net, b) THEN LoadAt(net, b) ELSE 0

GenServed(net) == IF Energized(net, 15) THEN net.gen[0] ELSE 0

(* the served load beyond which the solver finds no solution *)
CollapseLoad == 4

Converges(net) == Served(net, 5) + Served(net, 15) <= CollapseLoad

NoResults ==
    [vm |-> [b \in Buses |-> NaN], loading |-> [l \in Lines |-> NaN],
     total_gen |-> NaN, total_load |-> NaN, losses |-> NaN]

Solve(net) ==
    LET s5 == Served(net, 5)
        s15 == Served(net, 15)
        s4 == Served(net, 4)
        g == GenServed(net)
        sh0 == IF net.shunt[0] /\ Energized(net, 5) THEN 3 ELSE 0
        sh1 == IF net.shunt[1] /\ Energized(net, 15) THEN 3 ELSE 0
        v5 == 100 - 2 * (s5 + s15) + sh0
        v15 == v5 - 2 * s15 + sh1 + g
        l0 == IF net.line[0] THEN Max(0, 3500 * (s5 + s15) - 100 * g) ELSE 0
        l1 == IF net.line[0] /\ net.line[1] THEN Max(0, 4000 * s15 - 100 * g) ELSE 0
        loss == Max(0, (s5 + s15) * (s5 + s15) + s15 * s15 - g)
        tload == 30 * (s4 + s5 + s15)
    IN [vm |-> (4 :> 100) @@ (5 :> IF Energized(net, 5) THEN v5 ELSE NaN)
               @@ (15 :> IF Energized(net, 15) THEN v15 ELSE NaN) @@ (25 :> NaN),
        loading |-> (0 :> l0) @@ (1 :> l1),
        total_gen |-> tload + loss, total_load |-> tload, losses |-> loss]

(***************************************************************************)
(* PowerGridSimulation.  A simulation value g has the fields               *)
(*   net   : the pandapower network (inputs, results, converged flag)      *)
(*   fdev  : _frequency_deviation                                          *)
(*   snaps : _snapshots                                                    *)
(*   saved : for every snapshot, the network and the frequency deviation   *)
(*           at the moment save_snapshot returned its index (history)      *)
(***************************************************************************)
UpdateFrequency(g) ==
    LET r == g.net.res
    IN [g EXCEPT !.fdev = (DroopGain * (r.total_gen - r.total_load)) \div Max(r.total_load, 1)]

RunPowerFlow(g) ==
    IF Converges(g.net)
    THEN UpdateFrequency([g EXCEPT !.net.res = Solve(g.net), !.net.converged = TRUE])
    ELSE [g EXCEPT !.net.res = NoResults, !.net.converged = FALSE]

GetFrequency(g) == BaseFrequency + g.fdev

SetLineStatus(g, line_id, in_service) ==
    RunPowerFlow([g EXCEPT !.net.line[line_id] = in_service])

SetGeneratorOutput(g, gen_id, p) ==
    RunPowerFlow([g EXCEPT !.net.gen[gen_id] = p])

(* scale_factor is the rational num/den; the product is truncated to a level *)
ScaleLoad(g, load_id, num, den) ==
    RunPowerFlow([g EXCEPT !.net.load[load_id] = (g.net.load[load_id] * num) \div den])

SetShuntStatus(g, shunt_id, in_service) ==
    RunPowerFlow([g EXCEPT !.net.shunt[shunt_id] = in_service])

InjectLoadChange(g, bus_id, delta) ==
    LET at == {i \in DOMAIN g.net.load : LoadBusOf[i] = bus_id}
    IN IF at # {}
       THEN LET i == CHOOSE x \in at : \A y \in at : x <= y
            IN RunPowerFlow([g EXCEPT !.net.load[i] = g.net.load[i] + delta])
       ELSE LET i == CHOOSE x \in LoadIds : LoadBusOf[x] = bus_id
            IN RunPowerFlow([g EXCEPT !.net.load = g.net.load @@ (i :> delta)])

TripLine(g, line_id) ==
    RunPowerFlow([g EXCEPT !.net.line[line_id] = FALSE])

(* pp.to_json / pp.from_json_string: the tables of the network, in order *)
ToJson(net) == <<net.line, net.gen, net.load, net.shunt, net.res, net.converged>>
FromJson(js) ==
    [line |-> js[1], gen |-> js[2], load |-> js[3], shunt |-> js[4],
     res |-> js[5], converged |-> js[6]]

SaveSnapshot(g) ==
    [g EXCEPT !.snaps = Append(g.snaps, ToJson(g.net)),
              !.saved = Append(g.saved, [net |-> g.net, fdev |-> g.fdev])]

RestoreSnapshot(g, index) ==
    IF 0 <= index /\ index < Len(g.snaps)
    THEN RunPowerFlow([g EXCEPT !.net = FromJson(g.snaps[index + 1])])
    ELSE g

(***************************************************************************)
(* _check_violations: the violations of the current results, each a record *)
(* keyed by its component.                                                 *)
(***************************************************************************)
Violation(type, kind, id, value, critical) ==
    [type |-> type, component |-> [kind |-> kind, id |-> id], value |-> value,
     severity |-> IF critical THEN "critical" ELSE "warning"]

CheckViolations(g) ==
    LET vm == g.net.res.vm
        ld == g.net.res.loading
        freq == GetFrequency(g)
    IN {Violation("voltage", "bus", b, vm[b], Lt(vm[b], VCritLow) \/ Gt(vm[b], VCritHigh)) :
            b \in {x \in Buses : Lt(vm[x], VMin) \/ Gt(vm[x], VMax)}}
       \cup {Violation("thermal", "line", l, ld[l], Gt(ld[l], LoadingCrit)) :
            l \in {x \in Lines : Gt(ld[x], LoadingLimit)}}
       \cup (IF Abs(freq - BaseFrequency) > FreqBand
              THEN {Violation("frequency", "system", 0, freq,
                              Abs(freq - BaseFrequency) > FreqCrit)}
              ELSE {})

(***************************************************************************)
(* The callables handed to validate_action: a facade mutation with its     *)
(* arguments.  An identifier the table does not hold raises KeyError       *)
(* before anything is written.                                             *)
(***************************************************************************)
Call(fn, id, a, b) == [fn |-> fn, id |-> id, a |-> a, b |-> b]

Raises(g, f) ==
    CASE f.fn = "set_generator_output" -> f.id \notin Gens
      [] f.fn = "scale_load" -> f.id \notin DOMAIN g.net.load
      [] f.fn = "set_shunt_status" -> f.id \notin Shunts
      [] f.fn = "set_line_status" -> f.id \notin Lines
      [] OTHER -> FALSE

Apply(g, f) ==
    IF Raises(g, f) THEN g
    ELSE CASE f.fn = "set_generator_output" -> SetGeneratorOutput(g, f.id, f.a)
           [] f.fn = "scale_load" -> ScaleLoad(g, f.id, f.a, f.b)
           [] f.fn = "set_shunt_status" -> SetShuntStatus(g, f.id, f.a = 1)
           [] f.fn = "set_line_status" -> SetLineStatus(g, f.id, f.a = 1)
           [] f.fn = "inject_load_change" -> InjectLoadChange(g, f.id, f.a)
           [] OTHER -> g

(* "Worsened if deviation from limit grew by >5%" as the code computes it *)
Worsened(old_val, new_val) == Abs(new_val - One) > Abs(old_val - One) + Eps

Blocking(pre_violations, post_violations) ==
    LET pre_components == {v.component : v \in pre_violations}
        new_violations == {v \in post_violations : v.component \notin pre_components}
        worsened == {v \in post_violations :
                        \E o \in pre_violations :
                            o.component = v.component /\ Worsened(o.value, v.value)}
    IN new_violations \cup worsened

(* the snapshot validate_action restores in its finally clause *)
SandboxIndex_oldest(g1) == 0
SandboxIndex(g1) == Len(g1.snaps) - 1

(* validate_action: the simulation afterwards, whether action_fn raised,   *)
(* the returned record, and the violations seen inside the sandbox.        *)
ValidateAction(g, f) ==
    LET g1 == SaveSnapshot(g)
        snapshot_idx == SandboxIndex(g1)
        pre_violations == CheckViolations(g1)
        g2 == Apply(g1, f)
        post_violations == CheckViolations(g2)
        blocking == Blocking(pre_violations, post_violations)
    IN [g |-> RestoreSnapshot(g2, snapshot_idx),
        raised |-> Raises(g1, f),
        safe |-> blocking = {},
        violations |-> blocking,
        pre |-> pre_violations,
        post |-> post_violations]

(***************************************************************************)
(* Actuator endpoints.  A command c has the fields kind (device kind), id, *)
(* action, and the parameters p_mw, delta_mw, target_mw (None when absent) *)
(* and scale_factor fnum/fden (fden = 0 when absent).                      *)
(***************************************************************************)
Command(kind, id, action, p_mw, delta_mw, fnum, fden, target_mw) ==
    [kind |-> kind, id |-> id, action |-> action, p_mw |-> p_mw, delta_mw |-> delta_mw,
     fnum |-> fnum, fden |-> fden, target_mw |-> target_mw]

(* VoltageRegulatorServer._ACTION_ALIASES.get(action, action) *)
ActionAlias(action) ==
    CASE action \in {"activate", "enable", "on", "bank_toggle", "switch_on", "open"} -> "activate"
      [] action \in {"close", "deactivate", "disable", "off", "switch_off", "emergency_stop"} -> "deactivate"
      [] OTHER -> action

(* GeneratorServer._validate_in_sandbox: the callable it validates *)
GeneratorSandboxCall(g, c) ==
    Call("set_generator_output", c.id, IF c.p_mw = None THEN g.net.gen[c.id] ELSE c.p_mw, 0)

(* LoadControllerServer._validate_in_sandbox *)
LoadControllerSandboxCall(g, c) ==
    IF c.fden # 0 THEN Call("scale_load", c.id, c.fnum, c.fden)
    ELSE IF c.action = "shed" THEN Call("scale_load", c.id, 0, 1)
    ELSE Call("scale_load", c.id, 1, 1)

(* VoltageRegulatorServer._validate_in_sandbox *)
VoltageRegulatorSandboxCall(g, c) ==
    Call("set_shunt_status", c.id, IF ActionAlias(c.action) = "activate" THEN 1 ELSE 0, 0)

(* CircuitBreakerServer._validate_in_sandbox *)
CircuitBreakerSandboxCall(g, c) ==
    Call("set_line_status", c.id, IF c.action = "close" THEN 1 ELSE 0, 0)

(* _validate_in_sandbox of the server of the command's device kind *)
SandboxCall(g, c) ==
    CASE c.kind = "generator" -> GeneratorSandboxCall(g, c)
      [] c.kind = "load_controller" -> LoadControllerSandboxCall(g, c)
      [] c.kind = "voltage_regulator" -> VoltageRegulatorSandboxCall(g, c)
      [] OTHER -> CircuitBreakerSandboxCall(g, c)

ValidateInSandbox(g, c) == ValidateAction(g, SandboxCall(g, c))

(* GeneratorServer._execute_action: the simulation afterwards and success *)
GeneratorExecute(g, c) ==
    CASE c.action = "set_output" ->
            [g |-> SetGeneratorOutput(g, c.id, IF c.p_mw = None THEN g.net.gen[c.id] ELSE c.p_mw),
             success |-> TRUE]
      [] c.action = "ramp" ->
            [g |-> SetGeneratorOutput(g, c.id,
                      g.net.gen[c.id] + (IF c.delta_mw = None THEN 0 ELSE c.delta_mw)),
             success |-> TRUE]
      [] c.action = "emergency_stop" ->
            [g |-> SetGeneratorOutput(g, c.id, 0), success |-> TRUE]
      [] OTHER -> [g |-> g, success |-> FALSE]

(* LoadControllerServer._execute_action *)
LoadControllerExecute(g, c) ==
    CASE c.action = "scale" ->
            [g |-> IF c.fden # 0 THEN ScaleLoad(g, c.id, c.fnum, c.fden)
                                 ELSE ScaleLoad(g, c.id, 1, 1),
             success |-> TRUE]
      [] c.action \in {"shed", "emergency_stop"} ->
            [g |-> ScaleLoad(g, c.id, 0, 1), success |-> TRUE]
      [] c.action = "restore" ->
            [g |-> RunPowerFlow([g EXCEPT !.net.load[c.id] =
                      IF c.target_mw = None THEN g.net.load[c.id] ELSE c.target_mw]),
             success |-> TRUE]
      [] OTHER -> [g |-> g, success |-> FALSE]

(* VoltageRegulatorServer._execute_action *)
VoltageRegulatorExecute(g, c) ==
    CASE ActionAlias(c.action) = "activate" ->
            [g |-> SetShuntStatus(g, c.id, TRUE), success |-> TRUE]
      [] ActionAlias(c.action) \in {"deactivate", "emergency_stop"} ->
            [g |-> SetShuntStatus(g, c.id, FALSE), success |-> TRUE]
      [] OTHER -> [g |-> g, success |-> FALSE]

(* CircuitBreakerServer._execute_action *)
CircuitBreakerExecute(g, c) ==
    CASE c.action = "close" -> [g |-> SetLineStatus(g, c.id, TRUE), success |-> TRUE]
      [] c.action \in {"open", "emergency_stop"} ->
            [g |-> SetLineStatus(g, c.id, FALSE), success |-> TRUE]
      [] OTHER -> [g |-> g, success |-> FALSE]

(* _execute_action of the server of the command's device kind *)
ExecuteAction(g, c) ==
    CASE c.kind = "generator" -> GeneratorExecute(g, c)
      [] c.kind = "load_controller" -> LoadControllerExecute(g, c)
      [] c.kind = "voltage_regulator" -> VoltageRegulatorExecute(g, c)
      [] OTHER -> CircuitBreakerExecute(g, c)

(* whether _handle_control goes on to _execute_action *)
Proceeds_always(validate, safe) == TRUE
Proceeds(validate, safe) == (~validate) \/ safe

(* BaseActuatorServer._handle_control *)
HandleControl(g, c, validate) ==
    LET validation == ValidateInSandbox(g, c)
        g1 == IF validate THEN validation.g ELSE g
    IN IF Proceeds(validate, validation.safe)
       THEN LET r == ExecuteAction(g1, c)
            IN [g |-> r.g, executed |-> TRUE, success |-> r.success,
                validated |-> validate, safe |-> validation.safe]
       ELSE [g |-> g1, executed |-> FALSE, success |-> FALSE,
             validated |-> validate, safe |-> validation.safe]

(***************************************************************************)
(* Construction.  PowerGridSimulation.__init__ loads the case, runs the    *)
(* first power flow and starts with no snapshots.  The case data (loads,   *)
(* generator dispatch, shunt status) is drawn from InitCases.              *)
(***************************************************************************)
CaseNet(l0, l1, gen, sh) ==
    [line |-> [l \in Lines |-> TRUE], gen |-> [x \in Gens |-> gen],
     load |-> (0 :> l0) @@ (1 :> l1), shunt |-> [x \in Shunts |-> sh],
     res |-> NoResults, converged |-> FALSE]

InitCases ==
    {CaseNet(1, 1, 1, FALSE), CaseNet(2, 2, 2, TRUE), CaseNet(0, 3, 0, TRUE),
     CaseNet(0, 0, 0, TRUE)}

NewSimulation(net) == RunPowerFlow([net |-> net, fdev |-> 0, snaps |-> <<>>, saved |-> <<>>])

(***************************************************************************)
(* Inputs of the facade operations.                                        *)
(***************************************************************************)
ScaleFactors == {<<1, 2>>, <<2, 1>>}
Deltas == {1, 0 - 1}
BadId == 8 + 1
SnapshotIndexes == {0, 1}

SandboxCalls ==
    {Call("set_generator_output", 0, p, 0) : p \in 0..MaxGen}
    \cup {Call("set_generator_output", BadId, 0, 0),
          Call("scale_load", 1, 2, 1), Call("scale_load", 0, 1, 2),
          Call("set_shunt_status", 1, 1, 0), Call("set_shunt_status", 0, 0, 0),
          Call("set_line_status", 1, 0, 0), Call("set_line_status", 1, 1, 0)}

Commands ==
    {Command("generator", 0, "set_output", p, None, 0, 0, None) : p \in 0..MaxGen}
    \cup {Command("generator", 0, "ramp", None, 1, 0, 0, None),
          Command("load_controller", 1, "scale", None, None, 2, 1, None),
          Command("load_controller", 0, "shed", None, None, 0, 0, None),
          Command("voltage_regulator", 1, "on", None, None, 0, 0, None),
          Command("voltage_regulator", 0, "emergency_stop", None, None, 0, 0, None),
          Command("circuit_breaker", 1, "open", None, None, 0, 0, None),
          Command("circuit_breaker", 1, "close", None, None, 0, 0, None)}

(* the model keeps every setpoint within its bounds *)
WithinBounds(g) ==
    /\ \A i \in DOMAIN g.net.load : g.net.load[i] \in 0..MaxLevel
    /\ \A i \in Gens : g.net.gen[i] \in 0..MaxGen

(***************************************************************************)
(* Zones.  get_zone_buses splits the buses by number; a line belongs to a  *)
(* zone when both of its endpoints do.                                     *)
(***************************************************************************)
Zones == {"zone1", "zone2", "zone3"}

BusToZone(bus_id) ==
    IF bus_id < 10 THEN "zone1" ELSE IF bus_id < 20 THEN "zone2" ELSE "zone3"

ZoneBuses(z) ==
    CASE z = "zone1" -> {b \in Buses : 0 <= b /\ b < 10}
      [] z = "zone2" -> {b \in Buses : 10 <= b /\ b < 20}
      [] z = "zone3" -> {b \in Buses : 20 <= b /\ b < 30}
      [] OTHER -> {}

ZoneLines(z) == {l \in Lines : LineFrom[l] \in ZoneBuses(z) /\ LineTo[l] \in ZoneBuses(z)}

(***************************************************************************)
(* ZoneCoordinator and ZoneOptimizer.                                      *)
(***************************************************************************)
UnderVoltagePu == 95
OverVoltagePu == 105
MaxLineLoadingPct == 10000
EscalationDeadband == 3

(* protection_settings of a coordinator as its constructor sets it *)
DefaultSettings ==
    [under_voltage_pu |-> UnderVoltagePu, over_voltage_pu |-> OverVoltagePu,
     max_line_loading_pct |-> MaxLineLoadingPct]

(* protection_settings.update({k: v for k, v in arguments.items() if v is  *)
(* not None})                                                              *)
UpdateSettings(ps, arguments) ==
    [k \in DOMAIN ps |-> IF arguments[k] # None THEN arguments[k] ELSE ps[k]]

(* ZoneCoordinator._detect_violations under the settings ps *)
DetectViolations(g, z, ps) ==
    LET vm == g.net.res.vm
        ld == g.net.res.loading
    IN {[type |-> IF Lt(vm[b], ps.under_voltage_pu) THEN "voltage_low" ELSE "voltage_high",
         id |-> b, value |-> vm[b]] :
            b \in {x \in ZoneBuses(z) : Lt(vm[x], ps.under_voltage_pu)
                                          \/ Gt(vm[x], ps.over_voltage_pu)}}
       \cup {[type |-> "thermal", id |-> l, value |-> ld[l]] :
            l \in {x \in ZoneLines(z) : Gt(ld[x], ps.max_line_loading_pct)}}

(* the identifiers of S in increasing order, as the tables list them *)
RECURSIVE InOrder(_)
InOrder(S) ==
    IF S = {} THEN <<>>
    ELSE LET m == CHOOSE x \in S : \A y \in S : x <= y
         IN <<m>> \o InOrder(S \ {m})

(* switch, one after the other, the zone's shunts whose status is not `on` *)
RECURSIVE SwitchShunts(_, _, _, _)
SwitchShunts(g, z, ids, on) ==
    IF ids = <<>> THEN g
    ELSE LET shunt_id == Head(ids)
             g1 == IF ShuntBus[shunt_id] \in ZoneBuses(z) /\ g.net.shunt[shunt_id] # on
                   THEN SetShuntStatus(g, shunt_id, on)
                   ELSE g
         IN SwitchShunts(g1, z, Tail(ids), on)

(* ZoneOptimizer.regulate_voltage *)
RegulateVoltage(g, z) ==
    LET low_buses == {b \in ZoneBuses(z) : Lt(g.net.res.vm[b], VMin)}
        high_buses == {b \in ZoneBuses(z) : Gt(g.net.res.vm[b], VMax)}
        g1 == IF low_buses # {} THEN SwitchShunts(g, z, InOrder(Shunts), TRUE) ELSE g
        g2 == IF high_buses # {} THEN SwitchShunts(g1, z, InOrder(Shunts), FALSE) ELSE g1
    IN RunPowerFlow(g2)

(* scale every load at the receiving end of a line loaded above the target *)
RECURSIVE ScaleLoads(_, _, _, _)
ScaleLoads(g, ids, target_pct, loading) ==
    IF ids = <<>> THEN g
    ELSE ScaleLoads(ScaleLoad(g, Head(ids), target_pct, Max(loading, One)),
                    Tail(ids), target_pct, loading)

RECURSIVE BalanceLines(_, _, _)
BalanceLines(g, lids, target_pct) ==
    IF lids = <<>> THEN g
    ELSE LET lid == Head(lids)
             loading == g.net.res.loading[lid]
             loads_at_bus == {i \in DOMAIN g.net.load : LoadBusOf[i] = LineTo[lid]}
             g1 == IF Gt(loading, target_pct)
                   THEN ScaleLoads(g, InOrder(loads_at_bus), target_pct, loading)
                   ELSE g
         IN BalanceLines(g1, Tail(lids), target_pct)

(* ZoneOptimizer.balance_loading *)
BalanceLoading(g, z, target_pct) ==
    RunPowerFlow(BalanceLines(g, InOrder(ZoneLines(z)), target_pct))

(* the tie-lines of _emergency_island: in_zone and not both_in *)
TieLines_any_endpoint(z) ==
    {lid \in Lines : LineFrom[lid] \in ZoneBuses(z) \/ LineTo[lid] \in ZoneBuses(z)}
TieLines(z) ==
    {lid \in Lines : /\ LineFrom[lid] \in ZoneBuses(z) \/ LineTo[lid] \in ZoneBuses(z)
                     /\ ~(LineFrom[lid] \in ZoneBuses(z) /\ LineTo[lid] \in ZoneBuses(z))}

(* ZoneCoordinator._emergency_island: the simulation afterwards and the    *)
(* islanded field of the reply                                             *)
EmergencyIsland(g, z) ==
    LET g1 == SaveSnapshot(g)
        snapshot == Len(g1.snaps) - 1
        g2 == RunPowerFlow([g1 EXCEPT !.net.line =
                                [lid \in Lines |-> IF lid \in TieLines(z) THEN FALSE ELSE @[lid]]])
    IN IF ~g2.net.converged
       THEN [g |-> RestoreSnapshot(g2, snapshot), islanded |-> FALSE]
       ELSE [g |-> g2, islanded |-> TRUE]

(* the counter after a detection sweep that found count violations *)
CountSweep(counter, count) == IF count > 0 THEN counter + 1 ELSE 0

Escalates_one_early(counter) == counter >= EscalationDeadband - 1
Escalates(counter) == counter >= EscalationDeadband

(* rules 1 and 2 of _evaluate_safety_rules: voltage protection *)
VoltageRule(g, z, v_list) ==
    IF \E v \in v_list : v.type \in {"voltage_low", "voltage_high"}
    THEN RegulateVoltage(g, z) ELSE g

(* rule 3 of _evaluate_safety_rules: thermal overload *)
ThermalRule(g, z, v_list, ps) ==
    IF \E v \in v_list : v.type = "thermal"
    THEN BalanceLoading(g, z, (ps.max_line_loading_pct * 95) \div 100) ELSE g

(***************************************************************************)
(* ZoneAuditLogger.  The journal is the table zone_events of a SQLite file *)
(* shared by every coordinator: events lists its rows in insertion order,  *)
(* writable tells whether an INSERT on the file succeeds at present, and   *)
(* raised whether the latest call of log_event ended with an exception.    *)
(* The details of an entry are none (None or an empty dict), json (a dict  *)
(* of JSON values) or not_json (a dict holding a value json.dumps rejects).*)
(***************************************************************************)
EventTypes == {"ESCALATION", "RELAY_TRIP", "SETTINGS_UPDATED", "SYSTEM_START"}
DetailKinds == {"none", "json", "not_json"}

(* details_str = json.dumps(details) if details else None *)
JsonDumps(details) ==
    CASE details = "none" -> "NULL"
      [] details = "json" -> "text"
      [] OTHER -> "TypeError"

(* the try block of log_event: the INSERT, and the except that swallows *)
InsertEvent(a, zone_id, event_type, details_str) ==
    IF a.writable
    THEN [a EXCEPT !.events = Append(@, [zone_id |-> zone_id, event_type |-> event_type,
                                        details |-> details_str]),
                   !.raised = FALSE]
    ELSE [a EXCEPT !.raised = FALSE]

(* ZoneAuditLogger.log_event *)
LogEvent(a, zone_id, event_type, details) ==
    IF JsonDumps(details) = "TypeError"
    THEN [a EXCEPT !.raised = TRUE]
    ELSE InsertEvent(a, zone_id, event_type, JsonDumps(details))

(* the entries an evaluation journals, one after the other; the details    *)
(* are the violation report or the optimizer's result, dicts of JSON values*)
LogEvents_skipped(a, zone_id, event_types) == a
RECURSIVE LogEvents(_, _, _)
LogEvents(a, zone_id, event_types) ==
    IF event_types = <<>> THEN a
    ELSE LogEvents(LogEvent(a, zone_id, Head(event_types), "json"), zone_id,
                   Tail(event_types))

(* the RELAY_TRIP entries of rules 1 to 3 for the sweep v_list *)
RelayTrips(v_list) ==
    (IF \E v \in v_list : v.type \in {"voltage_low", "voltage_high"}
     THEN <<"RELAY_TRIP">> ELSE <<>>)
    \o (IF \E v \in v_list : v.type = "thermal" THEN <<"RELAY_TRIP">> ELSE <<>>)

(* ZoneCoordinator._evaluate_safety_rules: the simulation and the counter  *)
(* afterwards, the entries journalled and the returned record              *)
EvaluateSafetyRules(g, counter, z, ps) ==
    LET v_list == DetectViolations(g, z, ps)
        c1 == CountSweep(counter, Cardinality(v_list))
    IN IF Escalates(c1)
       THEN [g |-> g, counter |-> c1, status |-> "escalation_required",
             events |-> <<"ESCALATION">>,
             violations_before |-> Cardinality(v_list),
             violations_after |-> Cardinality(v_list)]
       ELSE LET g2 == ThermalRule(VoltageRule(g, z, v_list), z, v_list, ps)
            IN [g |-> g2, counter |-> c1, status |-> "executed",
                events |-> RelayTrips(v_list),
                violations_before |-> Cardinality(v_list),
                violations_after |-> Cardinality(DetectViolations(g2, z, ps))]

(***************************************************************************)
(* MonitoringLoop.  A violation event carries the zone it is filed under.  *)
(***************************************************************************)
ZoneIds == Zones \cup {"system"}
ZoneOrder == <<"zone1", "zone2", "zone3", "system">>

(* the zones the monitoring loop holds a coordinator for *)
Coordinators == Zones

ViolationEvent(type, zone, kind, id, value, critical) ==
    [violation_type |-> type, zone |-> zone, component |-> [kind |-> kind, id |-> id],
     current_value |-> value, severity |-> IF critical THEN "critical" ELSE "warning"]

(* MonitoringLoop._detect_all_violations *)
DetectAllViolations(g) ==
    LET vm == g.net.res.vm
        ld == g.net.res.loading
        freq == GetFrequency(g)
    IN {ViolationEvent("voltage", BusToZone(b), "bus", b, vm[b],
                       IF Lt(vm[b], VMin) THEN Lt(vm[b], VCritLow) ELSE Gt(vm[b], VCritHigh)) :
            b \in {x \in Buses : Lt(vm[x], VMin) \/ Gt(vm[x], VMax)}}
       \cup {ViolationEvent("thermal", "system", "line", l, ld[l], Gt(ld[l], LoadingCrit)) :
            l \in {x \in Lines : Gt(ld[x], LoadingLimit)}}
       \cup (IF Abs(freq - BaseFrequency) > FreqBand
              THEN {ViolationEvent("frequency", "system", "system", 0, freq,
                                   Abs(freq - BaseFrequency) > FreqCrit)}
              ELSE {})

(* needle in v.violation_type, for the types a violation event may carry;  *)
(* the monitoring loop files every bus violation under "voltage"           *)
InType(needle, violation_type) ==
    CASE needle = "low" -> violation_type \in {"voltage_low", "low_voltage"}
      [] needle = "high" -> violation_type \in {"voltage_high", "high_voltage"}
      [] OTHER -> violation_type = needle

(* the figures of the directive; a setpoint level of the model is RaiseMW  *)
RaiseMW == 10
RampMW == 5
ScalePct == 80

Min(a, b) == IF a <= b THEN a ELSE b

Proposal(device_kind, device_id, action, amount) ==
    [device_kind |-> device_kind, device_id |-> device_id, action |-> action,
     amount |-> amount]

(* MonitoringLoop._build_directive: the corrective actions it lists *)
BuildDirective(g, violations) ==
    LET low_v == {v \in violations : InType("low", v.violation_type)}
        thermal == {v \in violations : InType("thermal", v.violation_type)}
        gen_ids == InOrder(Gens)
        load_ids == InOrder(DOMAIN g.net.load)
        current_p == g.net.gen[gen_ids[1]] * RaiseMW
        max_p == MaxGen * RaiseMW
        raise == IF low_v # {}
                 THEN {Proposal("gen", gen_ids[1], "set_output", Min(current_p + RaiseMW, max_p))}
                      \cup {Proposal("shunt", x, "activate", 0) :
                               x \in {y \in Shunts : ~g.net.shunt[y]}}
                 ELSE {}
        relieve == IF thermal # {}
                   THEN {Proposal("load", load_ids[i], "scale", ScalePct) :
                            i \in 1..Min(2, Len(load_ids))}
                   ELSE {}
    IN IF raise \cup relieve # {} THEN raise \cup relieve
       ELSE {Proposal("gen", gen_ids[1], "ramp", RampMW)}

(* MonitoringLoop._group_by_zone; a zone without a key maps to {} *)
GroupByZone(violations) == [z \in ZoneIds |-> {v \in violations : v.zone = z}]

(* the tasks of a cycle, in the order the cycle awaits them *)
TaskOrder(tasks) == SelectSeq(ZoneOrder, LAMBDA z : z \in tasks)

(* whether the result awaited from a zone adds its violations to the       *)
(* escalation list                                                         *)
EscalatesZone_without_timeout(outcome) == outcome \in {"escalation_required", "raised"}
EscalatesZone(outcome) == outcome \in {"escalation_required", "timeout", "raised"}

IdleMonitor(cycle) ==
    [pc |-> "idle", cycle |-> cycle, violations |-> {},
     zone_violations |-> [z \in ZoneIds |-> {}], tasks |-> {}, pending |-> <<>>,
     outcome |-> [z \in ZoneIds |-> "none"], escalations |-> {}, queried |-> FALSE,
     steps |-> <<>>, timeouts |-> 0]

(* where _check_cycle goes on after its awaits and after the agent's query *)
AfterAwaits(escalations) == IF escalations # {} THEN "agent" ELSE "publish"
AfterQuery_return == "idle"
AfterQuery == "publish"

IdleThread == [pc |-> "idle", v_list |-> {}, status |-> "none"]

(***************************************************************************)
(* SafetyGuardian.validate_command: the verdict parsed from the reply of   *)
(* the safety model.                                                       *)
(***************************************************************************)
Replies ==
    {"safe", "unsafe", "json_safe", "json_unsafe", "fenced_json_unsafe", "json_no_verdict",
     "json_other", "not_json", "llm_error"}

(* the reply with its markdown code fence, if any, removed *)
StripFence(reply) == IF reply = "fenced_json_unsafe" THEN "json_unsafe" ELSE reply

Verdict(safe, risk_level, conditions) ==
    [safe |-> safe, risk_level |-> risk_level, conditions |-> conditions,
     is_dict |-> TRUE, has_safe |-> TRUE]

(* the value bound to `result`: the verdict written by the code, or what   *)
(* json.loads made of the reply (a dict with or without the verdict keys,  *)
(* or a value that is no dict)                                             *)
GuardianResult(reply) ==
    LET clean == StripFence(reply)
    IN CASE clean = "safe" -> Verdict(TRUE, "LOW", "none")
         [] clean = "unsafe" -> Verdict(FALSE, "HIGH", "none")
         [] clean = "json_safe" -> Verdict(TRUE, "LOW", "model")
         [] clean = "json_unsafe" -> Verdict(FALSE, "CRITICAL", "model")
         [] clean = "json_no_verdict" ->
               [safe |-> FALSE, risk_level |-> "absent", conditions |-> "absent",
                is_dict |-> TRUE, has_safe |-> FALSE]
         [] clean = "json_other" ->
               [safe |-> FALSE, risk_level |-> "absent", conditions |-> "absent",
                is_dict |-> FALSE, has_safe |-> FALSE]
         [] OTHER -> Verdict(FALSE, "HIGH", "Manual review required")

(* result.get("safe") of the log line after the try block raises when      *)
(* result is no dict                                                       *)
GuardianRaises(result) == ~result.is_dict

NoCommand == Command("none", 0, "none", None, None, 0, 0, None)

(***************************************************************************)
(* RegistryStore.  servers maps a server id to its registration: status    *)
(* ("absent" when the id is no key of _servers), registered_at and         *)
(* last_heartbeat.  Time is in seconds; the clock is read in steps of      *)
(* Tick.  rlast is the latest call of register, unregister or heartbeat:   *)
(* what the call returned (found) and, for unregister and heartbeat, the   *)
(* id and the status it had before the call (history).                     *)
(***************************************************************************)
ServerIds == {"gen_server", "sensor_server"}
Tick == 10
StaleThreshold == 60
SweepInterval == 30

(* ServerStatus: what the status field of a registration payload may hold *)
ServerStatuses == {"active", "stale", "offline"}

Registration(status, registered, last_heartbeat) ==
    [status |-> status, registered_at |-> registered, last_heartbeat |-> last_heartbeat]

(* server_id in self._servers; get_server returns None when it is not *)
Found(store, server_id) == store[server_id].status # "absent"

(* RegistryStore.register: the payload arrives with some status *)
Register(store, server_id, status, utcnow) ==
    [store EXCEPT ![server_id] = Registration("active", utcnow, utcnow)]

(* RegistryStore.unregister *)
Unregister(store, server_id) ==
    IF Found(store, server_id)
    THEN [store EXCEPT ![server_id] = Registration("absent", 0, 0)]
    ELSE store

(* RegistryStore.heartbeat *)
Heartbeat_keeps_status(store, server_id, utcnow) ==
    IF Found(store, server_id)
    THEN [store EXCEPT ![server_id].last_heartbeat = utcnow]
    ELSE store
Heartbeat(store, server_id, utcnow) ==
    IF Found(store, server_id)
    THEN [store EXCEPT ![server_id].last_heartbeat = utcnow, ![server_id].status = "active"]
    ELSE store

RegistryCall(op, found, server_id, was) ==
    [op |-> op, found |-> found, server_id |-> server_id, was |-> was]

(* the test of cleanup_stale on the age of the last heartbeat *)
Expired_after_two_thresholds(age) == age > 2 * StaleThreshold
Expired(age) == age > StaleThreshold

(* RegistryStore.cleanup_stale *)
CleanupStale(store, utcnow) ==
    [sid \in ServerIds |->
        IF store[sid].status = "active" /\ Expired(utcnow - store[sid].last_heartbeat)
        THEN [store[sid] EXCEPT !.status = "stale"]
        ELSE store[sid]]

(* RegistryStore.list_all_tools: the servers whose tools the list holds *)
ListAllTools(store) == {sid \in ServerIds : store[sid].status = "active"}

(***************************************************************************)
(* The tool catalog of the strategic agent and its dispatcher.  A tool is  *)
(* known by its clean name; _tool_server_map maps it to a server id and    *)
(* _server_objects maps a server id to the live server object.             *)
(***************************************************************************)
ToolNames == {"gen_server_control", "sensor_server_read_sensor"}

(* the server a registered tool belongs to *)
ToolServer(tool_name) ==
    IF tool_name = "gen_server_control" THEN "gen_server" ELSE "sensor_server"

(* _server_objects: the servers handed to the constructor *)
ServerObjects == {"gen_server"}

(* StrategicAgent.discover_tools: the catalog built from GET /tools, or    *)
(* the catalog as it was when the request fails                            *)
DiscoverTools(old_catalog, store, reachable) ==
    IF reachable
    THEN {t \in ToolNames : ToolServer(t) \in ListAllTools(store)}
    ELSE old_catalog

(* device ids for which the actuator's handlers raise before they write *)
ControlRaises(c) == c.kind = "generator" /\ c.id \notin Gens

(* StrategicAgent._call_server_tool for the control tool of an actuator *)
CallServerTool(g, c, validate) ==
    IF ControlRaises(c) THEN [g |-> g, raised |-> TRUE]
    ELSE [g |-> HandleControl(g, c, validate).g, raised |-> FALSE]

(* whether an exception of the endpoint operation leaves _execute_tool *)
Escapes_uncaught(in_try, op_raised) == op_raised
Escapes(in_try, op_raised) == op_raised /\ ~in_try

(* StrategicAgent._execute_tool: the payload returned, the grid            *)
(* afterwards, whether the call was routed to a server object and whether  *)
(* an exception left the method                                            *)
Routed(r) ==
    [g |-> r.g, payload |-> IF r.raised THEN "error" ELSE "result",
     routed |-> TRUE, raised |-> Escapes(TRUE, r.raised)]

ExecuteTool(g, cat, tool_name, c, validate) ==
    IF tool_name \notin cat
    THEN [g |-> g, payload |-> "error_not_found", routed |-> FALSE, raised |-> FALSE]
    ELSE IF ToolServer(tool_name) \notin ServerObjects
    THEN [g |-> g, payload |-> "no_live_server", routed |-> FALSE, raised |-> FALSE]
    ELSE Routed(CallServerTool(g, c, validate))

(***************************************************************************)
(* The endpoints the agent reaches by name: a zone coordinator, a sensor   *)
(* server and an actuator server.  An endpoint is told by the attribute    *)
(* its class sets (zone_id, sensor_type, device_type).                     *)
(***************************************************************************)
EndpointIds == {"coordinator_zone1", "sensor_voltage_zone1", "actuator_generator_zone1"}

EndpointKind(server_id) ==
    CASE server_id = "coordinator_zone1" -> "zone_id"
      [] server_id = "sensor_voltage_zone1" -> "sensor_type"
      [] OTHER -> "device_type"

(* the name an endpoint registers under, as discover_tools cleans it:      *)
(* blanks to underscores, brackets dropped, lower case                     *)
CleanServerName(server_id) ==
    CASE server_id = "coordinator_zone1" -> "zone_coordinator_plc_zone1"
      [] server_id = "sensor_voltage_zone1" -> "voltage_sensor_zone1"
      [] OTHER -> "generator_actuator_zone1"

(* get_registration: the tool names an endpoint publishes *)
GetRegistration(server_id) ==
    CASE EndpointKind(server_id) = "zone_id" ->
            {"get_zone_status", "optimize_zone_topology", "handle_violation", "load_balancing",
             "voltage_regulation", "emergency_islanding", "detect_violations",
             "execute_safety_rules", "update_protection_settings"}
      [] EndpointKind(server_id) = "sensor_type" ->
            {"read_sensor", "read_sensors_batch", "list_sensors", "set_threshold", "get_metadata"}
      [] OTHER ->
            {"control", "validate_action", "get_status", "list_devices", "emergency_shutdown"}

(* call_tool of the endpoint: the method that is the operation of a name *)
CallTool(server_id, name) ==
    CASE EndpointKind(server_id) = "zone_id" ->
            (CASE name = "get_zone_status" -> "_get_zone_status"
               [] name = "optimize_zone_topology" -> "optimizer.optimize"
               [] name = "handle_violation" -> "_handle_violation"
               [] name = "load_balancing" -> "optimizer.balance_loading"
               [] name = "voltage_regulation" -> "optimizer.regulate_voltage"
               [] name = "emergency_islanding" -> "_emergency_island"
               [] name = "detect_violations" -> "_detect_violations"
               [] name = "execute_safety_rules" -> "_evaluate_safety_rules"
               [] name = "update_protection_settings" -> "protection_settings.update"
               [] OTHER -> "unknown_tool")
      [] EndpointKind(server_id) = "sensor_type" ->
            (CASE name = "read_sensor" -> "_handle_read"
               [] name = "read_sensors_batch" -> "_handle_batch_read"
               [] name = "list_sensors" -> "_get_sensor_ids"
               [] name = "set_threshold" -> "_handle_set_threshold"
               [] name = "get_metadata" -> "_get_sensor_metadata"
               [] OTHER -> "unknown_tool")
      [] OTHER ->
            (CASE name = "control" -> "_handle_control"
               [] name = "validate_action" -> "_handle_validate"
               [] name = "get_status" -> "_get_device_status"
               [] name = "list_devices" -> "_get_device_ids"
               [] name = "emergency_shutdown" -> "_handle_emergency"
               [] OTHER -> "unknown_tool")

(* StrategicAgent._call_server_tool: the method the agent calls on the     *)
(* server object for a tool name, "unknown_tool" when no branch takes it   *)
CallServerToolByName(server_id, tool_name) ==
    CASE EndpointKind(server_id) = "zone_id" ->
            (CASE tool_name = "get_zone_status" -> "_get_zone_status"
               [] tool_name = "optimize_zone_topology" -> "optimizer.optimize"
               [] tool_name = "handle_violation" -> "_handle_violation"
               [] tool_name = "load_balancing" -> "optimizer.balance_loading"
               [] tool_name = "voltage_regulation" -> "optimizer.regulate_voltage"
               [] tool_name = "emergency_islanding" -> "_emergency_island"
               [] tool_name = "detect_violations" -> "_detect_violations"
               [] tool_name = "analyze_and_act" -> "_llm_analyze"
               [] OTHER -> "unknown_tool")
      [] EndpointKind(server_id) = "sensor_type" ->
            (CASE tool_name = "read_sensor" -> "_handle_read"
               [] tool_name = "read_sensors_batch" -> "_handle_batch_read"
               [] tool_name = "list_sensors" -> "_get_sensor_ids"
               [] tool_name = "set_threshold" -> "_handle_set_threshold"
               [] tool_name = "get_metadata" -> "_get_sensor_metadata"
               [] OTHER -> "unknown_tool")
      [] OTHER ->
            (CASE tool_name = "control" -> "_handle_control"
               [] tool_name = "validate_action" -> "_handle_validate"
               [] tool_name = "get_status" -> "_get_device_status"
               [] tool_name = "list_devices" -> "_get_device_ids"
               [] tool_name = "emergency_shutdown" -> "_handle_emergency"
               [] OTHER -> "unknown_tool")

(* the clean name discover_tools gives a tool of a server *)
CleanName(server_id, name) == CleanServerName(server_id) \o "_" \o name

(* the entries discover_tools writes to _tool_server_map and               *)
(* _tool_name_map for the tools GET /tools returned                        *)
CatalogEntries(listed) ==
    UNION {{[clean_name |-> CleanName(server_id, name), server_id |-> server_id,
              original_name |-> name] : name \in GetRegistration(server_id)} :
           server_id \in listed}

NoCall == [clean_name |-> "none", server_id |-> "none", original_name |-> "none",
           live |-> FALSE, executed |-> "none"]

(* StrategicAgent._execute_tool for a clean name: the entry looked up, and *)
(* what was executed                                                       *)
ExecuteByName(r, tool_name) ==
    IF \A e \in r.entries : e.clean_name # tool_name
    THEN [NoCall EXCEPT !.clean_name = tool_name, !.executed = "error_not_found"]
    ELSE LET e == CHOOSE e \in r.entries : e.clean_name = tool_name
         IN  [clean_name |-> tool_name, server_id |-> e.server_id,
              original_name |-> e.original_name,
              live |-> e.server_id \in r.objects,
              executed |-> IF e.server_id \in r.objects
                           THEN CallServerToolByName(e.server_id, e.original_name)
                           ELSE "no_live_server"]

(***************************************************************************)
(* EnergyStorageServer.  A unit has a state of charge and a power; the     *)
(* state of charge is counted in twentieths (FullSoc is 1.0, LowSoc 0.05)  *)
(* and a minute at one level of power moves it by one twentieth.  The      *)
(* power is negative while the unit charges.                               *)
(***************************************************************************)
StorageUnits == {"storage_0", "storage_1"}
StorageBus == [u \in StorageUnits |-> IF u = "storage_0" THEN 15 ELSE 4]
MaxPowerMw == [u \in StorageUnits |-> IF u = "storage_0" THEN 2 ELSE 1]
FullSoc == 20
LowSoc == 1

(* a control call on the storage server; power_mw is None when the         *)
(* parameters carry no such key                                            *)
StorageCommand(id, action, power_mw) ==
    [kind |-> "energy_storage", id |-> id, action |-> action, power_mw |-> power_mw]

(* min(parameters.get("power_mw", unit["max_power_mw"]), unit["max_power_mw"]) *)
PowerMw(c) ==
    IF c.power_mw = None THEN MaxPowerMw[c.id] ELSE Min(c.power_mw, MaxPowerMw[c.id])

(* unit["soc"] <= 0.05 *)
RefusesDischarge_below(soc) == soc < LowSoc
RefusesDischarge(soc) == soc <= LowSoc

(* EnergyStorageServer._execute_action: the units and the simulation       *)
(* afterwards, and the success field of the response                       *)
StorageExecute(units, g, c) ==
    IF c.id \notin StorageUnits
    THEN [units |-> units, g |-> g, success |-> FALSE]
    ELSE LET unit == units[c.id]
             power == Abs(PowerMw(c))
         IN CASE c.action = "charge" ->
                   [units |-> [units EXCEPT ![c.id] =
                                  [soc |-> Min(FullSoc, unit.soc + power),
                                   current_mw |-> 0 - power]],
                    g |-> InjectLoadChange(g, StorageBus[c.id], power),
                    success |-> TRUE]
              [] c.action = "discharge" ->
                   IF RefusesDischarge(unit.soc)
                   THEN [units |-> units, g |-> g, success |-> FALSE]
                   ELSE [units |-> [units EXCEPT ![c.id] =
                                       [soc |-> Max(0, unit.soc - power),
                                        current_mw |-> power]],
                         g |-> InjectLoadChange(g, StorageBus[c.id], 0 - power),
                         success |-> TRUE]
              [] c.action \in {"stop", "emergency_stop"} ->
                   [units |-> [units EXCEPT ![c.id].current_mw = 0], g |-> g,
                    success |-> TRUE]
              [] OTHER -> [units |-> units, g |-> g, success |-> FALSE]

(* EnergyStorageServer._validate_in_sandbox: the callable it validates *)
StorageSandboxCall(c) ==
    LET power == IF c.power_mw = None THEN MaxPowerMw[c.id] ELSE c.power_mw
        delta == IF c.action = "charge" THEN 0 - power
                 ELSE IF c.action = "discharge" THEN power ELSE 0
    IN Call("inject_load_change", StorageBus[c.id], delta, 0)

(* EnergyStorageServer._validate_in_sandbox: an unknown device is unsafe   *)
(* without a sandbox run                                                   *)
StorageValidateInSandbox(g, c) ==
    IF c.id \notin StorageUnits THEN [g |-> g, safe |-> FALSE]
    ELSE ValidateAction(g, StorageSandboxCall(c))

(* _handle_control after the validation, if any, has returned *)
StorageControlAfter(units, g, c, validate, validation) ==
    IF Proceeds(validate, validation.safe)
    THEN StorageExecute(units, IF validate THEN validation.g ELSE g, c)
            @@ [executed |-> TRUE, safe |-> validation.safe]
    ELSE [units |-> units, g |-> IF validate THEN validation.g ELSE g,
          executed |-> FALSE, success |-> FALSE, safe |-> validation.safe]

(* BaseActuatorServer._handle_control on the storage server *)
HandleStorageControl(units, g, c, validate) ==
    StorageControlAfter(units, g, c, validate, StorageValidateInSandbox(g, c))

(***************************************************************************)
(* EventBus.  channels maps a subscriber to the channel its queue is       *)
(* listed under ("none" when it has no queue) and to the queue itself.     *)
(* QueueMaxSize stands for the maxsize of 100 of the code.  A message is   *)
(* identified by its number in the order of the publish calls.             *)
(***************************************************************************)
Channels == {"grid_state", "agent_log"}
Subscribers == {1, 2}

NoQueue == [channel |-> "none", queue |-> <<>>]

(* queue.put_nowait(message) with QueueFull caught *)
Offer_evict_oldest(queue, message) ==
    IF Len(queue) >= QueueMaxSize THEN Append(Tail(queue), message) ELSE Append(queue, message)
Offer_at_front(queue, message) ==
    IF Len(queue) >= QueueMaxSize THEN queue ELSE <<message>> \o queue
Offer(queue, message) ==
    IF Len(queue) >= QueueMaxSize THEN queue ELSE Append(queue, message)

(* EventBus.publish: the queues after the message was offered to every     *)
(* queue listed under the channel                                          *)
Publish(chs, channel, message) ==
    [sub \in Subscribers |->
        IF chs[sub].channel = channel
        THEN [chs[sub] EXCEPT !.queue = Offer(@, message)]
        ELSE chs[sub]]

(***************************************************************************)
(* last: the most recent call and what it returned (history).              *)
(***************************************************************************)
Last(op, raised, safe, executed, converged, pre, post) ==
    [op |-> op, raised |-> raised, safe |-> safe, executed |-> executed,
     converged |-> converged, pre |-> pre, post |-> post]

zoneVars == <<consecutive, zlast, hist>>
guardVars == <<glast>>
lateVars == <<zlate>>
loopVars == <<tl>>
lifeVars == <<mloop>>
regVars == <<servers, now, sweep_at, rlast>>
dispVars == <<catalog, dlast, route>>
busVars == <<channels, published, received, registered_at>>
auditVars == <<audit>>
protVars == <<protection>>
storVars == <<storage, clast>>
extVars == <<guardVars, protVars, storVars, lateVars, loopVars, lifeVars, regVars, dispVars, busVars, auditVars>>
monVars == <<zthr, mon, agent, validation_log, extVars>>

FacadeMutations ==
    {"set_line_status", "set_generator_output", "scale_load", "set_shunt_status",
     "inject_load_change", "trip_line"}

Mutate(op, g2) ==
    /\ UNCHANGED <<zoneVars, monVars>>
    /\ nops < MaxOps
    /\ WithinBounds(g2)
    /\ grid' = g2
    /\ last' = Last(op, FALSE, TRUE, TRUE, g2.net.converged, {}, {})
    /\ nops' = nops + 1

DoSetLineStatus == \E b \in BOOLEAN : Mutate("set_line_status", SetLineStatus(grid, 1, b))

DoSetGeneratorOutput == \E p \in 0..MaxGen : Mutate("set_generator_output", SetGeneratorOutput(grid, 0, p))

DoScaleLoad ==
    \E i \in {0, 1}, f \in ScaleFactors :
        Mutate("scale_load", ScaleLoad(grid, i, f[1], f[2]))

DoSetShuntStatus == \E b \in BOOLEAN : Mutate("set_shunt_status", SetShuntStatus(grid, 1, b))

DoInjectLoadChange ==
    \E b \in {4, 15}, d \in Deltas : Mutate("inject_load_change", InjectLoadChange(grid, b, d))

DoTripLine == Mutate("trip_line", TripLine(grid, 0))

DoSaveSnapshot ==
    /\ UNCHANGED <<zoneVars, monVars>>
    /\ nops < MaxOps
    /\ grid' = SaveSnapshot(grid)
    /\ last' = Last("save_snapshot", FALSE, TRUE, TRUE, grid.net.converged, {}, {})
    /\ nops' = nops + 1

DoRestoreSnapshot ==
    \E i \in SnapshotIndexes :
        /\ UNCHANGED <<zoneVars, monVars>>
        /\ nops < MaxOps
        /\ grid' = RestoreSnapshot(grid, i)
        /\ last' = Last("restore_snapshot", FALSE, TRUE, i < Len(grid.snaps),
                        grid'.net.converged, {}, {})
        /\ nops' = nops + 1

DoValidateAction ==
    \E f \in SandboxCalls :
        /\ UNCHANGED <<zoneVars, monVars>>
        /\ nops < MaxOps
        /\ \E r \in {ValidateAction(grid, f)} :
           /\ grid' = r.g
           /\ last' = Last("validate_action", r.raised, r.safe, FALSE, r.g.net.converged, r.pre, r.post)
           /\ nops' = nops + 1

DoControl ==
    \E c \in Commands, validate \in BOOLEAN :
        /\ UNCHANGED <<zoneVars, monVars>>
        /\ nops < MaxOps
        /\ \E r \in {HandleControl(grid, c, validate)} :
           /\ WithinBounds(r.g)
           /\ grid' = r.g
           /\ last' = Last(IF validate THEN "control_validated" ELSE "control_direct",
                           FALSE, r.safe, r.executed, r.g.net.converged, {}, {})
           /\ nops' = nops + 1

(***************************************************************************)
(* A direct invocation of execute_safety_rules on the coordinator of zone  *)
(* z.  zlast is what it returned; hist[z] lists, for every invocation so   *)
(* far, whether its detection sweep found a violation and whether a        *)
(* violation was left when it returned (history).                          *)
(***************************************************************************)
ExecuteSafetyRules ==
    \E z \in Zones :
        /\ nops < MaxOps
        /\ \E r \in {EvaluateSafetyRules(grid, consecutive[z], z, protection[z])} :
           /\ grid' = r.g
           /\ consecutive' = [consecutive EXCEPT ![z] = r.counter]
           /\ zlast' = [zone |-> z, status |-> r.status,
                        violations_before |-> r.violations_before,
                        violations_after |-> r.violations_after]
           /\ hist' = [hist EXCEPT ![z] = Append(@, [found |-> r.violations_before > 0,
                                                     unresolved |-> r.violations_after > 0])]
           /\ audit' = LogEvents(audit, z, r.events)
        /\ nops' = nops + 1
        /\ UNCHANGED <<last, zthr, mon, agent, validation_log,
                       guardVars, protVars, storVars, lateVars, loopVars, lifeVars, regVars, dispVars, busVars>>

(* call_tool("emergency_islanding") on the coordinator of zone z; zlast is *)
(* the zone and the islanded field of the reply                            *)
DoEmergencyIsland ==
    \E z \in Zones :
        /\ nops < MaxOps
        /\ \E r \in {EmergencyIsland(grid, z)} :
           /\ grid' = r.g
           /\ zlast' = [zone |-> z, status |-> IF r.islanded THEN "islanded" ELSE "not_islanded",
                        violations_before |-> 0, violations_after |-> 0]
           /\ last' = Last("emergency_islanding", FALSE, TRUE, r.islanded, r.g.net.converged,
                           {}, {})
        /\ nops' = nops + 1
        /\ UNCHANGED <<consecutive, hist, zthr, mon, agent, validation_log,
                       guardVars, protVars, storVars, auditVars, lateVars, loopVars, lifeVars, regVars,
                       dispVars, busVars>>

(* the control tool of an actuator endpoint.  clast is the latest call     *)
(* (history): the command, the validate flag, and how it went.             *)
ControlCall(c, validate, safe, executed, success) ==
    [c |-> c, validate |-> validate, safe |-> safe, executed |-> executed,
     success |-> success]

NoControl == ControlCall(StorageCommand("none", "none", None), FALSE, FALSE, FALSE, FALSE)

(* the power_mw parameter: a number, or None when the key is missing *)
PowerParameters == {None, 1, 3}

StorageCommands ==
    {StorageCommand(id, action, power_mw) :
        id \in StorageUnits, action \in {"charge", "discharge"},
        power_mw \in PowerParameters}
    \cup {StorageCommand("storage_0", "stop", None),
          StorageCommand("storage_1", "emergency_stop", None),
          StorageCommand("storage_0", "hold", None),
          StorageCommand("storage_9", "charge", None)}

DoStorageControl ==
    \E c \in StorageCommands, validate \in BOOLEAN :
        /\ nops < MaxControls
        /\ \E r \in {HandleStorageControl(storage, grid, c, validate)} :
           /\ WithinBounds(r.g)
           /\ grid' = r.g
           /\ storage' = r.units
           /\ clast' = ControlCall(c, validate, r.safe, r.executed, r.success)
        /\ nops' = nops + 1
        /\ UNCHANGED <<last, zoneVars, zthr, mon, agent, validation_log,
                       guardVars, protVars, auditVars, lateVars, loopVars, lifeVars,
                       regVars, dispVars, busVars>>

(* commands for the other endpoints, over their action sets *)
ActuatorCommands ==
    {Command("generator", 0, "set_output", 2, None, 0, 0, None),
     Command("generator", 0, "ramp", None, 1, 0, 0, None),
     Command("generator", 0, "emergency_stop", None, None, 0, 0, None),
     Command("load_controller", 1, "scale", None, None, 2, 1, None),
     Command("load_controller", 0, "shed", None, None, 0, 0, None),
     Command("load_controller", 1, "restore", None, None, 0, 0, 2),
     Command("load_controller", 0, "emergency_stop", None, None, 0, 0, None),
     Command("voltage_regulator", 1, "on", None, None, 0, 0, None),
     Command("voltage_regulator", 0, "off", None, None, 0, 0, None),
     Command("voltage_regulator", 1, "emergency_stop", None, None, 0, 0, None),
     Command("circuit_breaker", 1, "open", None, None, 0, 0, None),
     Command("circuit_breaker", 1, "close", None, None, 0, 0, None)}

DoActuatorControl ==
    \E c \in ActuatorCommands, validate \in BOOLEAN :
        /\ nops < MaxControls
        /\ \E r \in {HandleControl(grid, c, validate)} :
           /\ WithinBounds(r.g)
           /\ grid' = r.g
           /\ clast' = ControlCall(c, validate, r.safe, r.executed, r.success)
        /\ nops' = nops + 1
        /\ UNCHANGED <<storage, last, zoneVars, zthr, mon, agent, validation_log,
                       guardVars, protVars, auditVars, lateVars, loopVars, lifeVars,
                       regVars, dispVars, busVars>>

(* the arguments of update_protection_settings: a threshold or None *)
SettingArguments ==
    {[under_voltage_pu |-> u, over_voltage_pu |-> o, max_line_loading_pct |-> None] :
        u \in {None, 97}, o \in {None, 103}}

(* call_tool("update_protection_settings") on the coordinator of zone z *)
UpdateProtectionSettings ==
    \E z \in Zones, arguments \in SettingArguments :
        /\ nops < MaxOps
        /\ protection' = [protection EXCEPT ![z] = UpdateSettings(@, arguments)]
        /\ audit' = LogEvent(audit, z, "SETTINGS_UPDATED", "json")
        /\ nops' = nops + 1
        /\ UNCHANGED <<grid, last, zoneVars, zthr, mon, agent, validation_log,
                       guardVars, storVars, lateVars, loopVars, lifeVars, regVars, dispVars,
                       busVars>>

(* log_event called by update_protection_settings and by run, with the     *)
(* details the caller hands over                                           *)
DoLogEvent ==
    \E zone_id \in Zones, event_type \in {"SETTINGS_UPDATED", "SYSTEM_START"},
       details \in DetailKinds :
        /\ Len(audit.events) < MaxEvents
        /\ nops < MaxOps
        /\ audit' = LogEvent(audit, zone_id, event_type, details)
        /\ nops' = nops + 1
        /\ UNCHANGED <<grid, last, zoneVars, zthr, mon, agent, validation_log,
                       guardVars, protVars, storVars, lateVars, loopVars, lifeVars, regVars, dispVars, busVars>>

(* the journal file stops or resumes accepting rows *)
AuditStoreChange ==
    /\ audit' = [audit EXCEPT !.writable = ~@]
    /\ UNCHANGED <<grid, last, nops, zoneVars, zthr, mon, agent, validation_log,
                   guardVars, protVars, storVars, lateVars, loopVars, lifeVars, regVars, dispVars, busVars>>

(***************************************************************************)
(* The monitoring loop.  The loop itself runs on the event loop; every     *)
(* dispatched zone evaluation runs _evaluate_safety_rules on a thread of   *)
(* the default executor, against the same simulation object and without a  *)
(* lock.  zthr[z] is the thread of zone z: ready (submitted), rules (the   *)
(* sweep is done, the rules are about to act), done (result available).    *)
(***************************************************************************)
(* the thread of z ends with status: its result waits for the loop when    *)
(* the loop still awaits it, and is dropped otherwise                      *)
Running(thread) == thread.pc \in {"ready", "rules"}

Finished(z, status) ==
    IF \E i \in DOMAIN mon.pending : mon.pending[i] = z
    THEN [pc |-> "done", v_list |-> {}, status |-> status]
    ELSE IdleThread

(***************************************************************************)
(* MonitoringLoop.start and stop.  mloop is the loop object: the data      *)
(* generator it was constructed with, _running, where start() stands (new: *)
(* not called; started: called, the first cycle not yet begun; looping;    *)
(* returned) and the number of calls of stop() (history).                  *)
(***************************************************************************)
(* the data generators of the repository: none given, or a DataGenerator,  *)
(* which has no method vary_loads                                          *)
DataGens == {"none", "data_generator"}

(* self.data_gen.vary_loads() at the head of the cycle *)
VaryLoadsRaises(data_gen) == data_gen = "data_generator"

NewLoop(data_gen) == [data_gen |-> data_gen, running |-> FALSE, pc |-> "new", stops |-> 0]

(* a loop constructed without data generator, in its while loop *)
StartedLoop == [data_gen |-> "none", running |-> TRUE, pc |-> "looping", stops |-> 0]

(* while self._running *)
LoopTest_always(running) == TRUE
LoopTest(running) == running

(* except Exception in start(): the error is logged and the loop goes on *)
AfterCycleError_propagates == "returned"
AfterCycleError == "looping"

LoopAtTest == mloop.pc \in {"started", "looping"} /\ mon.pc = "idle"

MonitorStart ==
    /\ mloop.pc = "new"
    /\ mloop' = [mloop EXCEPT !.running = TRUE, !.pc = "started"]
    /\ UNCHANGED <<grid, last, nops, zoneVars, zthr, mon, agent, validation_log, guardVars, protVars, storVars, auditVars,
                   lateVars, loopVars, regVars, dispVars, busVars>>

(* stop() runs at any suspension point of the loop; there is none between  *)
(* the assignment of start() and the first await of the first cycle        *)
MonitorStop ==
    /\ mloop.pc # "started"
    /\ mloop.stops < MaxStops
    /\ mloop' = [mloop EXCEPT !.running = FALSE, !.stops = @ + 1]
    /\ UNCHANGED <<grid, last, nops, zoneVars, zthr, mon, agent, validation_log, guardVars, protVars, storVars, auditVars,
                   lateVars, loopVars, regVars, dispVars, busVars>>

(* the sleep is over and the test of the while loop fails *)
MonitorReturn ==
    /\ LoopAtTest
    /\ ~LoopTest(mloop.running)
    /\ mloop' = [mloop EXCEPT !.pc = "returned"]
    /\ UNCHANGED <<grid, last, nops, zoneVars, zthr, mon, agent, validation_log, guardVars, protVars, storVars, auditVars,
                   lateVars, loopVars, regVars, dispVars, busVars>>

(* a cycle that raises at vary_loads: no power flow, no detection; start()  *)
(* catches the exception and sleeps                                        *)
MonitorCycleFault ==
    /\ LoopAtTest
    /\ LoopTest(mloop.running)
    /\ mon.cycle < MaxCycles
    /\ VaryLoadsRaises(mloop.data_gen)
    /\ mon' = [IdleMonitor(mon.cycle + 1) EXCEPT !.steps = <<"raised">>,
                                                 !.timeouts = mon.timeouts]
    /\ mloop' = [mloop EXCEPT !.pc = AfterCycleError]
    /\ UNCHANGED <<grid, last, nops, zoneVars, zthr, agent, validation_log, guardVars, protVars, storVars, auditVars,
                   lateVars, loopVars, regVars, dispVars, busVars>>

(* the zones the next cycle would dispatch, and whether an evaluation of   *)
(* one of them is still on a thread                                        *)
CycleTasks ==
    {z \in Coordinators : GroupByZone(DetectAllViolations(RunPowerFlow(grid)))[z] # {}}

OverThread == \E z \in CycleTasks : Running(zthr[z])

(* _check_cycle from its start to its first await: power flow, detection,  *)
(* grouping and the creation of one task per zone with a coordinator       *)
CheckCycle ==
    /\ LoopAtTest
    /\ LoopTest(mloop.running)
    /\ ~VaryLoadsRaises(mloop.data_gen)
    /\ mon.cycle < MaxCycles
    /\ mloop' = [mloop EXCEPT !.pc = "looping"]
    /\ \E g1 \in {RunPowerFlow(grid)} :
       \E violations \in {DetectAllViolations(g1)} :
          LET zone_violations == GroupByZone(violations)
              keys == {z \in ZoneIds : zone_violations[z] # {}}
              tasks == keys \cap Coordinators
          IN /\ \A z \in tasks : Running(zthr[z]) => ~Running(zlate[z])
             /\ grid' = g1
             /\ zlate' = [z \in Zones |-> IF z \in tasks /\ Running(zthr[z])
                                          THEN zthr[z] ELSE zlate[z]]
             /\ IF violations = {}
                THEN /\ mon' = [IdleMonitor(mon.cycle + 1) EXCEPT !.steps = <<"detect">>,
                                                                 !.timeouts = mon.timeouts]
                     /\ zthr' = zthr
                ELSE /\ mon' = [pc |-> "await", cycle |-> mon.cycle + 1,
                                violations |-> violations,
                                zone_violations |-> zone_violations,
                                tasks |-> tasks, pending |-> TaskOrder(tasks),
                                outcome |-> [z \in ZoneIds |-> "none"],
                                escalations |-> UNION {zone_violations[z] : z \in keys \ Coordinators},
                                queried |-> FALSE,
                                steps |-> <<"detect", "dispatch">>,
                                timeouts |-> mon.timeouts]
                     /\ zthr' = [z \in Zones |->
                                   IF z \in tasks
                                   THEN [pc |-> "ready", v_list |-> {}, status |-> "none"]
                                   ELSE zthr[z]]
    /\ UNCHANGED <<last, nops, zoneVars, agent, validation_log, guardVars, protVars, storVars, auditVars, loopVars, regVars,
                   dispVars, busVars>>

(* the cycle starts when no evaluation of a zone it dispatches is still    *)
(* on a thread                                                             *)
MonitorCycle ==
    /\ ~OverThread
    /\ CheckCycle

(* the cycle starts while an evaluation that timed out in an earlier cycle *)
(* is still on its thread, and dispatches that zone again                  *)
MonitorCycleOverThread ==
    /\ OverThread
    /\ CheckCycle

(* the thread of z: detection sweep, counter and deadband *)
ZoneBegin ==
    \E z \in Zones :
        /\ zthr[z].pc = "ready"
        /\ \E v_list \in {DetectViolations(grid, z, protection[z])} :
           \E c1 \in {CountSweep(consecutive[z], Cardinality(v_list))} :
              /\ consecutive' = [consecutive EXCEPT ![z] = c1]
              /\ zthr' = [zthr EXCEPT ![z] =
                              IF Escalates(c1) THEN Finished(z, "escalation_required")
                              ELSE [pc |-> "rules", v_list |-> v_list, status |-> "none"]]
              /\ audit' = IF Escalates(c1) THEN LogEvents(audit, z, <<"ESCALATION">>)
                          ELSE audit
        /\ UNCHANGED <<grid, last, nops, zlast, hist, mon, agent, validation_log,
                       guardVars, protVars, storVars, lateVars, loopVars, lifeVars, regVars, dispVars, busVars>>

(* the thread of z: the voltage and thermal rules and the return *)
ZoneRules ==
    \E z \in Zones :
        /\ zthr[z].pc = "rules"
        /\ grid' = ThermalRule(VoltageRule(grid, z, zthr[z].v_list), z, zthr[z].v_list, protection[z])
        /\ zthr' = [zthr EXCEPT ![z] = Finished(z, "executed")]
        /\ audit' = LogEvents(audit, z, RelayTrips(zthr[z].v_list))
        /\ UNCHANGED <<last, nops, zoneVars, mon, agent, validation_log,
                       guardVars, protVars, storVars, lateVars, loopVars, lifeVars, regVars, dispVars, busVars>>

(* two threads work on the tables of the network at once: one of them may  *)
(* fail with an exception instead of completing its rules                  *)
ZoneRaise ==
    \E z \in Zones :
        /\ zthr[z].pc = "rules"
        /\ \/ \E other \in Zones \ {z} : zthr[other].pc = "rules"
           \/ \E other \in Zones : zlate[other].pc = "rules"
        /\ zthr' = [zthr EXCEPT ![z] = Finished(z, "raised")]
        /\ UNCHANGED <<grid, last, nops, zoneVars, mon, agent, validation_log, extVars>>

(* An evaluation that ran into the timeout of an earlier cycle and is      *)
(* still on its executor thread when the loop submits the next evaluation  *)
(* of the same zone: zlate[z] is that thread.  Nobody awaits its result.   *)
LateZoneBegin ==
    \E z \in Zones :
        /\ zlate[z].pc = "ready"
        /\ \E v_list \in {DetectViolations(grid, z, protection[z])} :
           \E c1 \in {CountSweep(consecutive[z], Cardinality(v_list))} :
              /\ consecutive' = [consecutive EXCEPT ![z] = c1]
              /\ zlate' = [zlate EXCEPT ![z] =
                               IF Escalates(c1) THEN IdleThread
                               ELSE [pc |-> "rules", v_list |-> v_list, status |-> "none"]]
              /\ audit' = IF Escalates(c1) THEN LogEvents(audit, z, <<"ESCALATION">>)
                          ELSE audit
        /\ UNCHANGED <<grid, last, nops, zlast, hist, zthr, mon, agent, validation_log,
                       guardVars, protVars, storVars, lifeVars, loopVars, regVars, dispVars, busVars>>

LateZoneRules ==
    \E z \in Zones :
        /\ zlate[z].pc = "rules"
        /\ grid' = ThermalRule(VoltageRule(grid, z, zlate[z].v_list), z, zlate[z].v_list, protection[z])
        /\ zlate' = [zlate EXCEPT ![z] = IdleThread]
        /\ audit' = LogEvents(audit, z, RelayTrips(zlate[z].v_list))
        /\ UNCHANGED <<last, nops, zoneVars, zthr, mon, agent, validation_log,
                       guardVars, protVars, storVars, lifeVars, loopVars, regVars, dispVars, busVars>>

LateZoneRaise ==
    \E z \in Zones :
        /\ zlate[z].pc = "rules"
        /\ \/ \E other \in Zones : zthr[other].pc = "rules"
           \/ \E other \in Zones \ {z} : zlate[other].pc = "rules"
        /\ zlate' = [zlate EXCEPT ![z] = IdleThread]
        /\ UNCHANGED <<grid, last, nops, zoneVars, zthr, mon, agent, validation_log,
                       guardVars, protVars, storVars, auditVars, lifeVars, loopVars, regVars, dispVars, busVars>>

(* the loop receives the result of the task it awaits *)
MonitorAwaitResult ==
    /\ mon.pc = "await"
    /\ mon.pending # <<>>
    /\ LET z == Head(mon.pending)
       IN /\ zthr[z].pc = "done"
          /\ mon' = [mon EXCEPT !.pending = Tail(@),
                                !.outcome[z] = zthr[z].status,
                                !.escalations =
                                    IF EscalatesZone(zthr[z].status)
                                    THEN @ \cup mon.zone_violations[z] ELSE @,
                                !.steps = Append(@, "collect")]
          /\ zthr' = [zthr EXCEPT ![z] = IdleThread]
    /\ UNCHANGED <<grid, last, nops, zoneVars, agent, validation_log, extVars>>

(* the 10 s of wait_for elapse first; the thread goes on running *)
MonitorAwaitTimeout ==
    /\ mon.pc = "await"
    /\ mon.pending # <<>>
    /\ LET z == Head(mon.pending)
       IN /\ zthr[z].pc \in {"ready", "rules"}
          /\ mon.timeouts < MaxTimeouts
          /\ mon' = [mon EXCEPT !.pending = Tail(@),
                                !.timeouts = @ + 1,
                                !.outcome[z] = "timeout",
                                !.escalations =
                                    IF EscalatesZone("timeout")
                                    THEN @ \cup mon.zone_violations[z] ELSE @,
                                !.steps = Append(@, "timeout")]
    /\ UNCHANGED <<grid, last, nops, zoneVars, zthr, agent, validation_log, extVars>>

(* a load change reaching the grid between two invocations of the safety   *)
(* rules                                                                   *)
GridDisturbance ==
    \E d \in Deltas :
       \E g2 \in {InjectLoadChange(grid, 15, d)} :
          /\ WithinBounds(g2)
          /\ grid' = g2
          /\ last' = Last("inject_load_change", FALSE, TRUE, TRUE, g2.net.converged, {}, {})
          /\ UNCHANGED <<nops, zoneVars, monVars>>

(* a load change reaching the grid between two cycles *)
LoadDisturbance ==
    /\ mon.pc = "idle"
    /\ \A z \in Zones : zthr[z].pc = "idle" /\ zlate[z].pc = "idle"
    /\ DoInjectLoadChange

NewQuery(escalation) ==
    [active |-> TRUE, escalation |-> escalation, cmd |-> NoCommand, executed |-> FALSE]

(* the escalation step of the cycle, once every task has been awaited *)
MonitorEscalate ==
    /\ mon.pc = "await"
    /\ mon.pending = <<>>
    /\ IF AfterAwaits(mon.escalations) = "agent"
       THEN /\ mon' = [mon EXCEPT !.pc = "agent", !.queried = TRUE,
                                  !.steps = Append(@, "escalate")]
            /\ agent' = NewQuery(TRUE)
       ELSE /\ mon' = [mon EXCEPT !.pc = AfterAwaits(mon.escalations)]
            /\ agent' = agent
    /\ UNCHANGED <<grid, last, nops, zoneVars, zthr, validation_log, extVars>>

(* the last step of the cycle: the state of the grid goes to the           *)
(* grid_state channel, in a task that runs as soon as the loop sleeps      *)
MonitorPublish ==
    /\ mon.pc = "publish"
    /\ mon' = [mon EXCEPT !.pc = "idle", !.steps = Append(@, "publish")]
    /\ published' = Append(published, "grid_state")
    /\ channels' = Publish(channels, "grid_state", Len(published) + 1)
    /\ UNCHANGED <<grid, last, nops, zoneVars, zthr, agent, validation_log, guardVars, protVars, storVars, auditVars, lifeVars, loopVars, lateVars,
                   regVars, dispVars, received, registered_at>>

(***************************************************************************)
(* The strategic agent.  A query runs the tool loop; a control tool call   *)
(* goes through _execute_tool and _call_server_tool to _handle_control of  *)
(* the actuator server.                                                    *)
(***************************************************************************)
AgentCommands ==
    {Command("generator", 0, "set_output", 0, None, 0, 0, None),
     Command("load_controller", 1, "shed", None, None, 0, 0, None),
     Command("voltage_regulator", 1, "on", None, None, 0, 0, None)}

(* a query typed by the operator *)
AgentQuery ==
    /\ ~agent.active
    /\ agent' = NewQuery(FALSE)
    /\ UNCHANGED <<grid, last, nops, zoneVars, zthr, mon, validation_log, extVars>>

AgentToolCall ==
    \E c \in AgentCommands, validate \in BOOLEAN :
        /\ agent.active
        /\ nops < MaxOps
        /\ \E r \in {HandleControl(grid, c, validate)} :
           /\ WithinBounds(r.g)
           /\ grid' = r.g
           /\ last' = Last(IF validate THEN "control_validated" ELSE "control_direct",
                           FALSE, r.safe, r.executed, r.g.net.converged, {}, {})
           /\ agent' = [agent EXCEPT !.cmd = c, !.executed = r.executed]
        /\ nops' = nops + 1
        /\ UNCHANGED <<zoneVars, zthr, mon, validation_log, extVars>>

(* the tool loop ends, or the 300 s of the escalation query elapse *)
AgentReturn ==
    /\ agent.active
    /\ agent' = [agent EXCEPT !.active = FALSE]
    /\ mon' = IF mon.pc = "agent" /\ agent.escalation THEN [mon EXCEPT !.pc = AfterQuery] ELSE mon
    /\ UNCHANGED <<grid, last, nops, zoneVars, zthr, validation_log, extVars>>

GuardianValidateCommand ==
    \E c \in AgentCommands, reply \in Replies :
        /\ nops < MaxOps
        /\ \E result \in {GuardianResult(reply)} :
           /\ validation_log' = Append(validation_log, [command |-> c, result |-> result])
           /\ glast' = [reply |-> reply, raised |-> GuardianRaises(result), result |-> result]
        /\ nops' = nops + 1
        /\ UNCHANGED <<grid, last, zoneVars, zthr, mon, agent, auditVars, protVars, storVars, lateVars, loopVars, lifeVars, regVars, dispVars,
                       busVars>>

(***************************************************************************)
(* The registry service: its endpoints, the clock and the sweeper task.    *)
(***************************************************************************)
coreVars == <<grid, last, nops, zoneVars, zthr, mon, agent, validation_log>>

RegisterServer ==
    \E sid \in ServerIds, status \in ServerStatuses :
        /\ servers' = Register(servers, sid, status, now)
        /\ rlast' = RegistryCall("register", TRUE, "none", "absent")
        /\ UNCHANGED <<coreVars, guardVars, protVars, storVars, auditVars, lifeVars, loopVars, lateVars, dispVars, busVars, now, sweep_at>>

UnregisterServer ==
    \E sid \in ServerIds :
        /\ servers' = Unregister(servers, sid)
        /\ rlast' = RegistryCall("unregister", Found(servers, sid), sid, servers[sid].status)
        /\ UNCHANGED <<coreVars, guardVars, protVars, storVars, auditVars, lifeVars, loopVars, lateVars, dispVars, busVars, now, sweep_at>>

HeartbeatServer ==
    \E sid \in ServerIds :
        /\ servers' = Heartbeat(servers, sid, now)
        /\ rlast' = RegistryCall("heartbeat", Found(servers, sid), sid, servers[sid].status)
        /\ UNCHANGED <<coreVars, guardVars, protVars, storVars, auditVars, lifeVars, loopVars, lateVars, dispVars, busVars, now, sweep_at>>

(* one round of _stale_cleanup_loop: cleanup_stale, then sleep(30) *)
StaleCleanupLoop ==
    /\ now = sweep_at
    /\ servers' = CleanupStale(servers, now)
    /\ sweep_at' = now + SweepInterval
    /\ UNCHANGED <<coreVars, guardVars, protVars, storVars, auditVars, lifeVars, loopVars, lateVars, dispVars, busVars, now, rlast>>

(* the clock advances; the sweeper wakes up when its sleep is over *)
ClockTick ==
    /\ now < sweep_at
    /\ now < MaxTicks * Tick
    /\ now' = now + Tick
    /\ UNCHANGED <<coreVars, guardVars, protVars, storVars, auditVars, lifeVars, loopVars, lateVars, dispVars, busVars, servers, sweep_at,
                   rlast>>

(***************************************************************************)
(* The agent's catalog: discovery and the dispatch of a tool call.  dlast  *)
(* records the last dispatch (history).                                    *)
(***************************************************************************)
ToolCallNames == ToolNames \cup {"unknown_tool"}

ToolCallCommands ==
    {Command("generator", 0, "set_output", 0, None, 0, 0, None),
     Command("generator", BadId, "set_output", 0, None, 0, 0, None)}

AgentDiscoverTools ==
    \E reachable \in BOOLEAN :
        /\ catalog' = DiscoverTools(catalog, servers, reachable)
        /\ UNCHANGED <<coreVars, guardVars, protVars, storVars, auditVars, lifeVars, loopVars, lateVars, regVars, busVars, dlast, route>>

AgentExecuteTool ==
    \E tool_name \in ToolCallNames, c \in ToolCallCommands, validate \in BOOLEAN :
        /\ nops < MaxOps
        /\ \E r \in {ExecuteTool(grid, catalog, tool_name, c, validate)} :
           /\ grid' = r.g
           /\ dlast' = [tool_name |-> tool_name, payload |-> r.payload, routed |-> r.routed,
                        raised |-> r.raised, in_catalog |-> tool_name \in catalog,
                        status |-> IF tool_name \in ToolNames
                                   THEN servers[ToolServer(tool_name)].status ELSE "absent",
                        live |-> tool_name \in ToolNames /\ ToolServer(tool_name) \in ServerObjects,
                        op_raised |-> r.routed /\ ControlRaises(c),
                        grid_changed |-> r.g # grid]
        /\ nops' = nops + 1
        /\ UNCHANGED <<last, zoneVars, zthr, mon, agent, validation_log, guardVars, protVars, storVars, auditVars, lifeVars, loopVars, lateVars, regVars,
                       busVars, catalog, route>>

(***************************************************************************)
(* The agent with the endpoints' own tool names.  route holds the server   *)
(* objects handed to the constructor, the catalog entries and the last     *)
(* call by clean name (history).                                           *)
(***************************************************************************)
NewRoute(objects) == [objects |-> objects, entries |-> {}, call |-> NoCall]

CleanNames ==
    {e.clean_name : e \in CatalogEntries(EndpointIds)} \cup {"unknown_tool"}

(* StrategicAgent(servers=...) *)
NewStrategicAgent ==
    \E objects \in SUBSET EndpointIds :
        /\ route' = NewRoute(objects)
        /\ UNCHANGED <<coreVars, guardVars, protVars, storVars, auditVars, lifeVars, loopVars, lateVars, regVars, busVars,
                       catalog, dlast>>

(* discover_tools with the servers whose tools GET /tools returned *)
AgentDiscoverEndpointTools ==
    \E reachable \in BOOLEAN, listed \in SUBSET EndpointIds :
        /\ route' = [route EXCEPT !.entries = IF reachable THEN CatalogEntries(listed) ELSE @]
        /\ UNCHANGED <<coreVars, guardVars, protVars, storVars, auditVars, lifeVars, loopVars, lateVars, regVars, busVars,
                       catalog, dlast>>

(* _execute_tool called with a clean name *)
AgentCallByName ==
    \E tool_name \in CleanNames :
        /\ route' = [route EXCEPT !.call = ExecuteByName(route, tool_name)]
        /\ UNCHANGED <<coreVars, guardVars, protVars, storVars, auditVars, lifeVars, loopVars, lateVars, regVars, busVars,
                       catalog, dlast>>

(***************************************************************************)
(* The event bus.  published lists the publish calls in their order,       *)
(* received[sub] what the subscriber has taken from its queue, and         *)
(* registered_at[sub] the number of publish calls before its queue was     *)
(* listed (history).                                                       *)
(***************************************************************************)
(* publish, called by any of the publishers; it has no await between the   *)
(* copy of the queue list and the last put_nowait                          *)
BusPublish ==
    \E channel \in Channels :
        /\ Len(published) < MaxPublished
        /\ published' = Append(published, channel)
        /\ channels' = Publish(channels, channel, Len(published) + 1)
        /\ UNCHANGED <<coreVars, guardVars, protVars, storVars, auditVars, lifeVars, loopVars, lateVars, regVars, dispVars, received, registered_at>>

(* subscribe up to its first await: a new queue listed under the channel *)
BusSubscribe ==
    \E sub \in Subscribers, channel \in Channels :
        /\ channels[sub].channel = "none"
        /\ channels' = [channels EXCEPT ![sub] = [channel |-> channel, queue |-> <<>>]]
        /\ received' = [received EXCEPT ![sub] = <<>>]
        /\ registered_at' = [registered_at EXCEPT ![sub] = Len(published)]
        /\ UNCHANGED <<coreVars, guardVars, protVars, storVars, auditVars, lifeVars, loopVars, lateVars, regVars, dispVars, published>>

(* the subscriber takes the next message from its queue *)
BusReceive ==
    \E sub \in Subscribers :
        /\ channels[sub].channel # "none"
        /\ channels[sub].queue # <<>>
        /\ received' = [received EXCEPT ![sub] = Append(@, Head(channels[sub].queue))]
        /\ channels' = [channels EXCEPT ![sub].queue = Tail(@)]
        /\ UNCHANGED <<coreVars, guardVars, protVars, storVars, auditVars, lifeVars, loopVars, lateVars, regVars, dispVars, published, registered_at>>

(* the finally clause of subscribe: the queue is taken off the list of its *)
(* channel when it is on it                                                *)
Unsubscribe_whole_channel(chs, sub) ==
    [other \in Subscribers |->
        IF chs[other].channel = chs[sub].channel THEN NoQueue ELSE chs[other]]
Unsubscribe(chs, sub) == [chs EXCEPT ![sub] = NoQueue]

(* the stream of the subscriber is cancelled or closed.  registered_at     *)
(* then keeps the number of publish calls made before the queue left.      *)
BusUnsubscribe ==
    \E sub \in Subscribers :
        /\ channels[sub].channel # "none"
        /\ channels' = Unsubscribe(channels, sub)
        /\ registered_at' = [registered_at EXCEPT ![sub] = Len(published)]
        /\ UNCHANGED <<coreVars, guardVars, protVars, storVars, auditVars, lifeVars, loopVars, lateVars, regVars, dispVars, published, received>>

(***************************************************************************)
(* StrategicAgent.query with LLMClient.tool_loop inside it.  tl is the     *)
(* query in progress: where it stands, the LLM calls made (rounds), the    *)
(* tool calls of the round still to execute (calls), the tool calls        *)
(* requested so far, the conversation as the roles of its messages, the    *)
(* text returned, the length of the audit log (decisions), and two         *)
(* histories: whether an LLM call failed, and whether an LLM call was made *)
(* while a requested tool result was missing from the conversation.        *)
(***************************************************************************)
MaxIterations == 10

(* what a call of the LLM gives: a message with tool calls, a message     *)
(* with text, a message without content, or an exception                   *)
LLMReplies == {"tool_calls", "text", "no_text", "error"}

ToolCallsOf(reply) == IF reply = "tool_calls" THEN ToolCallsPerReply ELSE 0

(* msg.content or "" *)
ContentOrEmpty(reply) == IF reply = "text" THEN "final" ELSE "empty"

(* for _iteration in range(max_iterations) *)
LoopContinues_one_more(rounds) == rounds <= MaxIterations
LoopContinues(rounds) == rounds < MaxIterations

ToolResults(messages) == Cardinality({i \in DOMAIN messages : messages[i] = "tool"})

(* k calls of publish on the channel, one after the other *)
RECURSIVE PublishTimes(_, _, _, _)
PublishTimes(chs, pub, channel, k) ==
    IF k = 0 THEN [channels |-> chs, published |-> pub]
    ELSE PublishTimes(Publish(chs, channel, Len(pub) + 1), Append(pub, channel), channel, k - 1)

IdleLoop ==
    [pc |-> "idle", rounds |-> 0, calls |-> 0, requested |-> 0, messages |-> <<>>,
     text |-> "none", decisions |-> 0, llm_failed |-> FALSE, missing |-> FALSE]

(* query after tool_loop returned text: the decision goes to the audit log *)
(* and the text back to the caller                                         *)
FinishQuery(t, text) == [t EXCEPT !.pc = "returned", !.text = text, !.decisions = @ + 1]

(* query up to the first LLM call: the context, the log line, the system   *)
(* and user messages                                                       *)
ToolLoopStart ==
    /\ tl.pc = "idle"
    /\ tl' = [tl EXCEPT !.pc = "llm", !.messages = <<"system", "user">>]
    /\ \E bus \in {PublishTimes(channels, published, "agent_log", 1)} :
          channels' = bus.channels /\ published' = bus.published
    /\ UNCHANGED <<coreVars, guardVars, protVars, storVars, auditVars, lifeVars, lateVars, regVars, dispVars, received, registered_at>>

(* one LLM call of the loop and what follows it up to the next await: an   *)
(* exception of the call leaves tool_loop and query; a reply with tool     *)
(* calls is appended; a reply without ends the loop and the query          *)
ToolLoopRound ==
    /\ tl.pc = "llm"
    /\ \E reply \in LLMReplies :
          LET t1 == [tl EXCEPT !.rounds = @ + 1,
                               !.missing = @ \/ ToolResults(tl.messages) # tl.requested]
              returns == reply \in {"text", "no_text"}
              bus == PublishTimes(channels, published, "agent_log", IF returns THEN 1 ELSE 0)
          IN /\ tl' = CASE reply = "error" ->
                              [t1 EXCEPT !.pc = "raised", !.llm_failed = TRUE]
                        [] returns -> FinishQuery(t1, ContentOrEmpty(reply))
                        [] OTHER ->
                              [t1 EXCEPT !.pc = "tools", !.calls = ToolCallsOf(reply),
                                         !.requested = @ + ToolCallsOf(reply),
                                         !.messages = Append(@, "assistant")]
             /\ channels' = bus.channels
             /\ published' = bus.published
    /\ UNCHANGED <<coreVars, guardVars, protVars, storVars, auditVars, lifeVars, lateVars, regVars, dispVars, received, registered_at>>

(* the tools the model asks for: any name while fewer than MaxOps calls    *)
(* have reached an endpoint, names outside the catalog after that          *)
RequestedTools == IF nops < MaxOps THEN ToolCallNames ELSE ToolCallNames \ catalog

(* one tool call of the round: the two log lines, the executor, the tool   *)
(* message; after the last one the next iteration, or the end of the       *)
(* range and of the query                                                  *)
ToolLoopExecute ==
    /\ tl.pc = "tools"
    /\ \E tool_name \in RequestedTools, c \in ToolCallCommands, validate \in BOOLEAN :
       \E r \in {ExecuteTool(grid, catalog, tool_name, c, validate)} :
       \E t1 \in {[tl EXCEPT !.calls = @ - 1, !.messages = Append(@, "tool")]} :
       \E ends \in {t1.calls = 0 /\ ~LoopContinues(t1.rounds)} :
       \E bus \in {PublishTimes(channels, published, "agent_log", IF ends THEN 3 ELSE 2)} :
          /\ grid' = r.g
          /\ nops' = IF r.routed THEN nops + 1 ELSE nops
          /\ tl' = IF r.raised THEN [tl EXCEPT !.pc = "raised"]
                   ELSE IF t1.calls > 0 THEN t1
                   ELSE IF ends THEN FinishQuery(t1, "max_iterations")
                   ELSE [t1 EXCEPT !.pc = "llm"]
          /\ channels' = bus.channels
          /\ published' = bus.published
    /\ UNCHANGED <<last, zoneVars, zthr, mon, agent, validation_log, guardVars, protVars, storVars, auditVars, lifeVars,
                   lateVars, regVars, dispVars, received, registered_at>>

(* the servers register and the agent discovers its tools while the       *)
(* system starts, before the first query                                   *)
StartupRegister ==
    /\ tl.pc = "idle"
    /\ RegisterServer

StartupDiscover ==
    /\ tl.pc = "idle"
    /\ AgentDiscoverTools

InitLoop == tl = IdleLoop

vars == <<grid, last, nops, consecutive, zlast, hist, zthr, mon, agent, validation_log, extVars>>

InitZone ==
    /\ protection = [z \in Zones |-> DefaultSettings]
    /\ consecutive = [z \in Zones |-> 0]
    /\ zlast = [zone |-> "none", status |-> "none", violations_before |-> 0,
                violations_after |-> 0]
    /\ hist = [z \in Zones |-> <<>>]

InitMonitor ==
    /\ zthr = [z \in Zones |-> IdleThread]
    /\ zlate = [z \in Zones |-> IdleThread]
    /\ mon = IdleMonitor(0)
    /\ agent = [active |-> FALSE, escalation |-> FALSE, cmd |-> NoCommand, executed |-> FALSE]
    /\ validation_log = <<>>
    /\ glast = [reply |-> "none", raised |-> FALSE, result |-> Verdict(FALSE, "HIGH", "none")]


InitRegistry ==
    /\ servers = [sid \in ServerIds |-> Registration("absent", 0, 0)]
    /\ now = 0
    /\ sweep_at = 0
    /\ rlast = RegistryCall("none", FALSE, "none", "absent")

InitDispatch ==
    /\ catalog = {}
    /\ dlast = [tool_name |-> "none", payload |-> "none", routed |-> FALSE, raised |-> FALSE,
                in_catalog |-> FALSE, status |-> "absent", live |-> FALSE,
                op_raised |-> FALSE, grid_changed |-> FALSE]
    /\ route = NewRoute({})

(* the journal file exists, is empty and accepts rows *)
InitAudit == audit = [writable |-> TRUE, events |-> <<>>, raised |-> FALSE]

InitBus ==
    /\ channels = [sub \in Subscribers |-> NoQueue]
    /\ published = <<>>
    /\ received = [sub \in Subscribers |-> <<>>]
    /\ registered_at = [sub \in Subscribers |-> 0]

(* the units as the constructor of the storage server sets them: at 50 %  *)
(* and 70 %, idle                                                          *)
NewStorage(soc0, soc1) ==
    [u \in StorageUnits |->
        [soc |-> IF u = "storage_0" THEN soc0 ELSE soc1, current_mw |-> 0]]

InitStorage == storage = NewStorage(10, 14) /\ clast = NoControl

InitFrom(cases) ==
    /\ \E net \in cases : grid = NewSimulation(net)
    /\ last = Last("init", FALSE, TRUE, FALSE, grid.net.converged, {}, {})
    /\ nops = 0
    /\ InitZone
    /\ InitMonitor
    /\ InitRegistry
    /\ InitDispatch
    /\ InitBus
    /\ InitLoop
    /\ InitAudit

InitBase == InitFrom(InitCases) /\ InitStorage

(* the system with its monitoring loop running *)
InitGrid == InitBase /\ mloop = StartedLoop

(* the system with its monitoring loop constructed and not started *)
InitLifecycle == InitBase /\ \E data_gen \in DataGens : mloop = NewLoop(data_gen)

NextGrid ==
    \/ DoSetLineStatus
    \/ DoSetGeneratorOutput
    \/ DoScaleLoad
    \/ DoSetShuntStatus
    \/ DoInjectLoadChange
    \/ DoTripLine
    \/ DoSaveSnapshot
    \/ DoRestoreSnapshot
    \/ DoValidateAction
    \/ DoControl

SpecGrid == InitGrid /\ [][NextGrid]_vars

(* the journal written by the evaluations and by the other callers of      *)
(* log_event, on a file that may stop and resume accepting rows            *)
NextAudit ==
    \/ ExecuteSafetyRules
    \/ DoInjectLoadChange
    \/ DoLogEvent
    \/ AuditStoreChange

SpecAudit == InitGrid /\ [][NextAudit]_vars

(* the zone protection engine invoked up to MaxOps times, with load        *)
(* changes in between                                                      *)
NextDeadband ==
    \/ ExecuteSafetyRules
    \/ GridDisturbance

SpecDeadband == InitGrid /\ [][NextDeadband]_vars

(* the actuator endpoints, from the charge the storage units have after   *)
(* construction or after earlier minutes of charging and discharging       *)
StartingSoc == {1, 2, 10, 19}

InitCharged ==
    /\ InitFrom({CaseNet(1, 1, 1, FALSE)})
    /\ mloop = StartedLoop
    /\ clast = NoControl
    /\ \E soc0 \in StartingSoc : storage = NewStorage(soc0, 14)

NextActuator ==
    \/ DoStorageControl
    \/ DoActuatorControl

SpecActuator == InitCharged /\ [][NextActuator]_vars

(* a zone isolated by its coordinator, between line switchings and load    *)
(* changes                                                                 *)
NextIsland ==
    \/ DoEmergencyIsland
    \/ DoSetLineStatus
    \/ DoTripLine
    \/ GridDisturbance

(* next to the cases of InitCases, a network whose load at bus 5 alone is   *)
(* beyond what the solver can serve                                        *)
HeavyCase == CaseNet(CollapseLoad + 1, 1, 1, FALSE)

InitIsland == InitFrom(InitCases \cup {HeavyCase}) /\ InitStorage /\ mloop = StartedLoop

SpecIsland == InitIsland /\ [][NextIsland]_vars

(* the zone protection engine with its thresholds revised between         *)
(* invocations                                                             *)
NextProtection ==
    \/ ExecuteSafetyRules
    \/ UpdateProtectionSettings
    \/ GridDisturbance

SpecProtection == InitGrid /\ [][NextProtection]_vars

(* the zone protection engine invoked directly, between disturbances *)
NextZone ==
    \/ ExecuteSafetyRules
    \/ DoInjectLoadChange
    \/ DoSetShuntStatus
    \/ DoSetGeneratorOutput

SpecZone == InitGrid /\ [][NextZone]_vars

(* the monitoring loop with its zone threads, the agent it escalates to    *)
(* and load disturbances                                                   *)
NextMonitor ==
    \/ MonitorCycle
    \/ ZoneBegin
    \/ ZoneRules
    \/ ZoneRaise
    \/ MonitorAwaitResult
    \/ MonitorAwaitTimeout
    \/ MonitorEscalate
    \/ MonitorPublish
    \/ AgentToolCall
    \/ AgentReturn
    \/ LoadDisturbance

SpecMonitor == InitGrid /\ [][NextMonitor]_vars

(* the monitoring loop when evaluations outlive their timeout: cycles that *)
(* start over a running evaluation, and the threads left behind            *)
NextOverlap ==
    \/ MonitorCycle
    \/ MonitorCycleOverThread
    \/ ZoneBegin
    \/ ZoneRules
    \/ ZoneRaise
    \/ LateZoneBegin
    \/ LateZoneRules
    \/ LateZoneRaise
    \/ MonitorAwaitResult
    \/ MonitorAwaitTimeout
    \/ MonitorEscalate
    \/ MonitorPublish
    \/ AgentReturn

SpecOverlap == InitGrid /\ [][NextOverlap]_vars

(* the monitoring loop from its construction to the return of start() *)
NextLifecycle ==
    \/ MonitorStart
    \/ MonitorStop
    \/ MonitorReturn
    \/ MonitorCycle
    \/ MonitorCycleFault
    \/ ZoneBegin
    \/ ZoneRules
    \/ ZoneRaise
    \/ MonitorAwaitResult
    \/ MonitorAwaitTimeout
    \/ MonitorEscalate
    \/ MonitorPublish
    \/ AgentReturn
    \/ LoadDisturbance

SpecLifecycle == InitLifecycle /\ [][NextLifecycle]_vars

(* the strategic agent answering operator queries, and the guardian *)
NextAgent ==
    \/ AgentQuery
    \/ AgentToolCall
    \/ AgentReturn
    \/ GuardianValidateCommand
    \/ DoInjectLoadChange

SpecAgent == InitGrid /\ [][NextAgent]_vars

(* the registry service alone, on a grid nobody touches *)
InitService == InitGrid /\ grid = NewSimulation(CaseNet(1, 1, 1, FALSE))

NextRegistry ==
    \/ RegisterServer
    \/ UnregisterServer
    \/ HeartbeatServer
    \/ StaleCleanupLoop
    \/ ClockTick

SpecRegistry == InitService /\ [][NextRegistry]_vars

(* the agent's dispatcher next to the registry it discovers its tools in *)
NextDispatch ==
    \/ RegisterServer
    \/ StaleCleanupLoop
    \/ ClockTick
    \/ AgentDiscoverTools
    \/ AgentExecuteTool

SpecDispatch == InitService /\ [][NextDispatch]_vars

(* the agent's dispatcher next to the endpoints it calls by name *)
NextRoute ==
    \/ NewStrategicAgent
    \/ AgentDiscoverEndpointTools
    \/ AgentCallByName

SpecRoute == InitService /\ [][NextRoute]_vars

(* the event bus with its publishers and subscribers *)
NextBus ==
    \/ BusPublish
    \/ BusSubscribe
    \/ BusReceive
    \/ BusUnsubscribe

SpecBus == InitService /\ [][NextBus]_vars

(* one query of the agent, with the registry and the discovery its tool    *)
(* calls depend on                                                         *)
NextToolLoop ==
    \/ StartupRegister
    \/ StartupDiscover
    \/ ToolLoopStart
    \/ ToolLoopRound
    \/ ToolLoopExecute

SpecToolLoop == InitService /\ [][NextToolLoop]_vars

(***************************************************************************)
(* Properties of the grid facade, the sandbox and the actuator endpoint.   *)
(***************************************************************************)
Observable(g) ==
    <<g.net.res.vm, g.net.res.loading, g.net.line, g.net.gen, g.net.load, g.net.shunt>>

(* C1: when validate_action returns or propagates the exception of its     *)
(* action, bus voltages, line loadings, in-service flags, generator        *)
(* setpoints, load values and shunt status are what they were on entry.    *)
C1_ValidateActionRestores ==
    [][last'.op = "validate_action" => Observable(grid') = Observable(grid)]_vars

(* a validation whose sandboxed action changed the violations, run after a *)
(* generator setpoint was changed on top of an older snapshot              *)
C1_Witness ==
    /\ last.op = "validate_action"
    /\ ~last.raised
    /\ Len(grid.snaps) >= 2
    /\ FromJson(grid.snaps[1]).gen # grid.net.gen
    /\ last.post # last.pre

(* the deviation of a violating value from the nearest limit of its range *)
Deviation(v) ==
    CASE v.type = "voltage" -> IF v.value < VMin THEN VMin - v.value ELSE v.value - VMax
      [] v.type = "thermal" -> v.value - LoadingLimit
      [] OTHER -> Abs(v.value - BaseFrequency) - FreqBand

(* 5% of the limit the range of a component is measured against *)
FivePercentOfLimit(v) ==
    CASE v.type = "voltage" -> (5 * One) \div 100
      [] v.type = "thermal" -> (5 * LoadingLimit) \div 100
      [] OTHER -> (5 * FreqBand) \div 100

(* "measurably worsens": the deviation from the nearest limit grows by     *)
(* more than 5%, of the deviation before or of the limit; either counts    *)
MeasurablyWorsened(old, new) ==
    \/ 100 * Deviation(new) > 105 * Deviation(old)
    \/ Deviation(new) - Deviation(old) > FivePercentOfLimit(new)

NoNewViolation(pre, post) ==
    \A v \in post : \E o \in pre : o.component = v.component

NoneWorsened(pre, post) ==
    \A v \in post : \A o \in pre :
        o.component = v.component => ~MeasurablyWorsened(o, v)

(* C2: validate_action reports safe only when the post-action state has no *)
(* violation on a component that was not violating before, and it does     *)
(* report safe when there is none and no component violating before and    *)
(* after has measurably worsened.                                          *)
C2_SafeIffNoNewNoWorsened ==
    (last.op = "validate_action" /\ ~last.raised) =>
        /\ last.safe => NoNewViolation(last.pre, last.post)
        /\ (NoNewViolation(last.pre, last.post) /\ NoneWorsened(last.pre, last.post))
               => last.safe

(* C3: no facade mutation leaves a grid whose power flow did not converge. *)
C3_MutationNeverLeavesNonConverged ==
    last.op \in FacadeMutations => grid.net.converged

(* C10: control with validate=true refused by the sandbox leaves the grid  *)
(* as it was and reports executed=false; a validated control commits only  *)
(* after the sandbox reported safe.                                        *)
C10_UnsafeControlNotCommitted ==
    [][last'.op = "control_validated" =>
          /\ ~last'.safe => (~last'.executed /\ Observable(grid') = Observable(grid))
          /\ last'.executed => last'.safe]_vars

(* a validated control the sandbox refused, whose action would have        *)
(* changed the grid                                                        *)
C10_Witness ==
    /\ last.op = "control_validated"
    /\ ~last.safe
    /\ ~last.executed
    /\ \E c \in Commands :
          /\ ~ValidateInSandbox(grid, c).safe
          /\ Observable(ExecuteAction(grid, c).g) # Observable(grid)

(* the number of invocations at the end of h whose sweep found a violation *)
RECURSIVE TrailingRun(_)
TrailingRun(h) ==
    IF h = <<>> \/ ~h[Len(h)].found THEN 0
    ELSE 1 + TrailingRun(SubSeq(h, 1, Len(h) - 1))

(* C5: counting from a counter of 0, an invocation of the safety rules     *)
(* that is the first or the second in a row to find a violation does not   *)
(* return escalation_required, and the third in a row does.                *)
C5_EscalationOnThirdInvocation ==
    zlast.zone \in Zones =>
        LET run == TrailingRun(hist[zlast.zone])
        IN /\ run \in {1, 2} => zlast.status # "escalation_required"
           /\ run = 3 => zlast.status = "escalation_required"

(* a third invocation in a row that found a violation *)
C5_Witness ==
    /\ zlast.zone \in Zones
    /\ TrailingRun(hist[zlast.zone]) = 3
    /\ zlast.status = "escalation_required"

(***************************************************************************)
(* Properties of the strategic agent and the monitoring loop.              *)
(***************************************************************************)
(* C4: a control issued by the tool loop of the strategic agent is         *)
(* executed only after the guardian was consulted for that command and     *)
(* answered safe.                                                          *)
C4_AgentControlApprovedByGuardian ==
    agent.executed =>
        \E i \in DOMAIN validation_log :
            validation_log[i].command = agent.cmd /\ validation_log[i].result.safe

(* whether the detection of the cycle found a violation in zone z: filed   *)
(* under z, or on a bus or a line of z                                     *)
ZoneHasViolation(z) ==
    \E v \in mon.violations :
        \/ v.zone = z
        \/ v.component.kind = "bus" /\ v.component.id \in ZoneBuses(z)
        \/ v.component.kind = "line" /\ v.component.id \in ZoneLines(z)

(* C6: when a monitoring cycle has ended, every zone that had no violation *)
(* in it has a consecutive-violation counter of 0.                         *)
C6_CleanCycleResetsCounter ==
    (mon.pc = "idle" /\ mon.cycle > 0) =>
        \A z \in Zones : ~ZoneHasViolation(z) => consecutive[z] = 0

(* C7: zone rule evaluations are serialized: never are two of them at work *)
(* on the grid at once, each between its detection sweep and the end of    *)
(* its writes and power-flow re-solves.                                    *)
C7_GridWritesSerialized ==
    Cardinality({z \in Zones : zthr[z].pc = "rules"}) <= 1

(* C8: once the tasks of a cycle have been awaited, the escalation set     *)
(* holds the violations of every zone whose evaluation returned            *)
(* escalation_required, timed out or raised, none of a zone that returned  *)
(* a normal result, and the agent was queried with escalation=true exactly *)
(* when the set is not empty.                                              *)
C8_EscalationSetAndQuery ==
    (mon.pc \in {"agent", "publish", "idle"}) =>
        /\ \A z \in mon.tasks :
              /\ mon.outcome[z] \in {"escalation_required", "timeout", "raised"}
                    => mon.zone_violations[z] \subseteq mon.escalations
              /\ mon.outcome[z] = "executed"
                    => mon.zone_violations[z] \cap mon.escalations = {}
        /\ mon.queried <=> mon.escalations # {}
        /\ mon.pc = "agent" => (agent.active /\ agent.escalation)

(* a cycle in which one zone returned a normal result and another one      *)
(* timed out, raised or asked for escalation                               *)
C8_Witness ==
    /\ mon.pc = "agent"
    /\ mon.queried
    /\ \E z1, z2 \in mon.tasks :
          /\ mon.outcome[z1] = "executed"
          /\ mon.outcome[z2] \in {"escalation_required", "timeout", "raised"}
          /\ mon.zone_violations[z2] # {}
          /\ mon.zone_violations[z2] \subseteq mon.escalations

(* C9: a thermal violation on a line owned by a zone is grouped under that *)
(* zone and the zone's safety rules are dispatched in the same cycle.      *)
C9_ThermalGroupedUnderOwningZone ==
    \A v \in mon.violations : \A z \in Zones :
        (v.violation_type = "thermal" /\ v.component.id \in ZoneLines(z)) =>
            (v \in mon.zone_violations[z] /\ z \in mon.tasks)

(***************************************************************************)
(* Properties of the safety guardian.                                      *)
(***************************************************************************)
(* the replies of the oracle that carry no verdict: the call failed, or    *)
(* the text is no JSON, or the JSON holds no verdict                       *)
NoVerdictReplies == {"llm_error", "not_json", "json_other", "json_no_verdict"}

(* C11: when the oracle call fails or its reply cannot be parsed into a    *)
(* verdict, validate_command returns safe=false with risk level HIGH and   *)
(* the condition "Manual review required".                                 *)
C11_GuardianFailsClosed ==
    glast.reply \in NoVerdictReplies =>
        /\ ~glast.raised
        /\ glast.result.has_safe /\ ~glast.result.safe
        /\ glast.result.risk_level = "HIGH"
        /\ glast.result.conditions = "Manual review required"

(***************************************************************************)
(* Properties of the registry.                                             *)
(***************************************************************************)
HeartbeatAge(sid) == now - servers[sid].last_heartbeat

(* a round of the sweeper has just run *)
SweepStep == sweep_at' # sweep_at

C13_StaleEndpointNeverDispatched ==
    /\ \A sid \in ListAllTools(servers) : servers[sid].status # "stale"
    /\ dlast.routed => dlast.status # "stale"

(* C18: _execute_tool never raises: a name that is not in the catalog      *)
(* yields an error payload, a catalog entry without a live server yields   *)
(* the no_live_server stub, both without a change of the grid, and an      *)
(* exception of the endpoint operation comes back as an error payload.     *)
C18_ExecuteToolNeverRaises ==
    dlast.tool_name # "none" =>
        /\ ~dlast.raised
        /\ ~dlast.in_catalog => (dlast.payload = "error_not_found" /\ ~dlast.grid_changed)
        /\ (dlast.in_catalog /\ ~dlast.live)
               => (dlast.payload = "no_live_server" /\ ~dlast.grid_changed)
        /\ dlast.op_raised => dlast.payload = "error"

(* a routed call whose endpoint operation raised, from a catalog that also *)
(* holds a tool without a live server                                      *)
C18_Witness ==
    /\ dlast.op_raised
    /\ dlast.payload = "error"
    /\ \E t \in catalog : ToolServer(t) \notin ServerObjects

(***************************************************************************)
(* Properties of the event bus.                                            *)
(***************************************************************************)
PublishStep == Len(published') = Len(published) + 1

(* C14: a publish that finds a subscriber's queue full leaves that queue   *)
(* as it is, every other subscriber of the channel gets the message at the *)
(* end of its queue, queues of other channels are untouched, and no queue  *)
(* ever holds more than its maximum size.                                  *)
C14_FullQueueDropsMessage ==
    /\ [][PublishStep =>
             \A sub \in Subscribers :
                 LET q == channels[sub].queue
                 IN channels'[sub].queue =
                       IF channels[sub].channel # published'[Len(published')] THEN q
                       ELSE IF Len(q) = QueueMaxSize THEN q
                       ELSE Append(q, Len(published'))]_vars
    /\ [](\A sub \in Subscribers : Len(channels[sub].queue) <= QueueMaxSize)

(* a message was dropped for a subscriber whose queue is full while the    *)
(* other subscriber of the channel holds it                                *)
C14_Witness ==
    \E sub, other \in Subscribers :
        /\ published # <<>>
        /\ channels[sub].channel = published[Len(published)]
        /\ channels[other].channel = channels[sub].channel
        /\ Len(channels[sub].queue) = QueueMaxSize
        /\ channels[sub].queue[QueueMaxSize] # Len(published)
        /\ channels[other].queue # <<>>
        /\ channels[other].queue[Len(channels[other].queue)] = Len(published)

(* the numbers, in order, of the publish calls on a channel after the      *)
(* first `from` calls                                                      *)
PublishedOn(channel, from) ==
    SelectSeq([i \in 1..(Len(published) - from) |-> from + i],
              LAMBDA n : published[n] = channel)

(* whether a is b with some of its elements left out *)
RECURSIVE IsSubsequence(_, _)
IsSubsequence(a, b) ==
    IF a = <<>> THEN TRUE
    ELSE IF b = <<>> THEN FALSE
    ELSE IF Head(a) = Head(b) THEN IsSubsequence(Tail(a), Tail(b))
    ELSE IsSubsequence(a, Tail(b))

(* C15: what a subscriber has received, followed by what waits in its      *)
(* queue, is a subsequence in publish order of the messages published on   *)
(* its channel after it registered.                                        *)
C15_ReceivedIsSubsequence ==
    \A sub \in Subscribers :
        channels[sub].channel # "none" =>
            IsSubsequence(received[sub] \o channels[sub].queue,
                          PublishedOn(channels[sub].channel, registered_at[sub]))

(* a subscriber that registered late, missed a message by drop-on-full and *)
(* received messages published before and after the one it missed          *)
C15_Witness ==
    \E sub \in Subscribers :
        /\ channels[sub].channel # "none"
        /\ registered_at[sub] > 0
        /\ Len(received[sub]) >= 2
        /\ \E i \in 1..(Len(received[sub]) - 1) :
              /\ received[sub][i + 1] > received[sub][i] + 1
              /\ \E n \in (received[sub][i] + 1)..(received[sub][i + 1] - 1) :
                    published[n] = channels[sub].channel

(* ---- the order of the steps of a monitoring cycle ---- *)

StepRank(step) ==
    CASE step = "detect" -> 0
      [] step = "dispatch" -> 1
      [] step \in {"collect", "timeout"} -> 2
      [] step = "escalate" -> 3
      [] step = "publish" -> 4

StepsOf(kinds) == {i \in DOMAIN mon.steps : mon.steps[i] \in kinds}

CycleFinished ==
    \/ mon.steps = <<>>
    \/ mon.steps = <<"detect">>
    \/ mon.steps[Len(mon.steps)] = "publish"

(* C16: in a cycle that detects violations the steps come in the order     *)
(* detection, zone dispatch, one collected result or timeout per           *)
(* dispatched zone, the strategic escalation if there is one, the publish  *)
(* of the grid state; and the detection of the next cycle starts only      *)
(* after the publish of the cycle before it.                               *)
C16_CycleStepsInOrder ==
    /\ [](/\ mon.steps # <<>> => mon.steps[1] = "detect"
          /\ \A i, j \in DOMAIN mon.steps :
                i < j => /\ StepRank(mon.steps[i]) <= StepRank(mon.steps[j])
                         /\ mon.steps[i] \notin {"collect", "timeout"}
                                => StepRank(mon.steps[i]) < StepRank(mon.steps[j])
          /\ StepsOf({"escalate", "publish"}) # {}
                => Cardinality(StepsOf({"collect", "timeout"})) = Cardinality(mon.tasks)
          /\ StepsOf({"publish"}) # {} /\ mon.escalations # {}
                => StepsOf({"escalate"}) # {}
          /\ mon.pc = "idle" => CycleFinished)
    /\ [][mon'.cycle # mon.cycle => CycleFinished /\ mon'.steps[1] = "detect"]_vars

C16_Witness ==
    /\ mon.cycle >= 2
    /\ mon.steps[Len(mon.steps)] = "publish"
    /\ StepsOf({"collect"}) # {}
    /\ StepsOf({"escalate"}) # {}

(* ---- evaluations of one zone at the same time ---- *)

(* C17: no two evaluations of the safety rules of the same zone are in     *)
(* progress at the same time, also when the earlier one ran into its       *)
(* timeout and the next cycle dispatched the zone again.                   *)
C17_OneEvaluationPerZone ==
    \A z \in Zones : ~(Running(zthr[z]) /\ Running(zlate[z]))

(* ---- the tool-use loop ---- *)

(* C19: a failure of the LLM call inside the tool-use loop does not leave  *)
(* query: the iteration yields an empty text, the decision is recorded and *)
(* the text is returned.                                                   *)
C19_LLMFailureStaysInQuery ==
    tl.llm_failed =>
        /\ tl.pc # "raised"
        /\ tl.pc = "returned" => tl.decisions = 1 /\ tl.text = "empty"

(* the steps the loop has left at most: the LLM calls of the range not yet *)
(* made, each with its tool calls, and the tool calls of this round        *)
StepsLeft(t) == (MaxIterations - t.rounds) * (ToolCallsPerReply + 1) + t.calls

AwaitsOver ==
    \/ mon.pc \in {"agent", "publish"}
    \/ mon.pc = "idle" /\ StepsOf({"publish"}) # {}

(* C21: a fault in a cycle never stops the loop: after a cycle that raised *)
(* the loop is in its sleep, still looping, and starts the next cycle; and *)
(* a zone task that raised or timed out does not keep the loop from        *)
(* collecting the results of the other zones of the cycle.                 *)
C21_FaultNeverStopsLoop ==
    /\ mon.steps = <<"raised">> =>
          /\ mon.pc = "idle"
          /\ mloop.pc = "looping" \/ (mloop.pc = "returned" /\ mloop.stops > 0)
          /\ mloop.running /\ mon.cycle < MaxCycles => ENABLED MonitorCycleFault
    /\ AwaitsOver =>
          /\ \A z \in mon.tasks : mon.outcome[z] # "none"
          /\ Cardinality(StepsOf({"collect", "timeout"})) = Cardinality(mon.tasks)

C21_Witness ==
    /\ AwaitsOver
    /\ \E i, j \in DOMAIN mon.steps :
          i < j /\ mon.steps[i] = "timeout" /\ mon.steps[j] = "collect"
    /\ \E z \in mon.tasks : mon.outcome[z] = "raised"

C21_WitnessCycleRaised ==
    /\ mon.cycle = MaxCycles
    /\ mon.steps = <<"raised">>

(* C22: with a data generator that has no vary_loads, every cycle still    *)
(* runs the power flow and the detection sweep.                            *)
C22_CycleRunsWithoutVaryLoads ==
    [][mon'.cycle # mon.cycle /\ VaryLoadsRaises(mloop.data_gen)
          => mon'.steps # <<>> /\ mon'.steps[1] = "detect"]_vars

(* C23: once stop() was called on the running loop no new cycle starts,    *)
(* _running stays false, start() returns when the cycle in progress and    *)
(* its sleep are over, the loop does nothing after that, and a             *)
(* further call of stop() changes nothing but the count of the calls.      *)
C23_StopEndsLoop ==
    /\ [](/\ mloop.pc = "looping" /\ ~mloop.running /\ mon.pc = "idle"
                => ENABLED MonitorReturn
          /\ mloop.pc = "returned" => ~mloop.running /\ mon.pc = "idle")
    /\ [][/\ mloop.pc \in {"looping", "returned"} /\ ~mloop.running
                => /\ mon'.cycle = mon.cycle
                   /\ ~mloop'.running
                   /\ mloop'.pc \in {mloop.pc, "returned"}
          /\ mloop.pc = "returned" => mon' = mon
          /\ ~mloop.running /\ mloop'.stops # mloop.stops
                => mloop' = [mloop EXCEPT !.stops = @ + 1]
                   /\ UNCHANGED <<grid, mon, zthr, agent, published>>]_vars

C23_Witness ==
    /\ mloop.pc = "returned"
    /\ mloop.stops = MaxStops
    /\ mon.cycle = 1
    /\ StepsOf({"publish"}) # {}

(***************************************************************************)
(* C24: log_event always returns normally: no failure while an entry is    *)
(* recorded, be it the serialization of its details or the write to the    *)
(* store, leaves log_event as an exception.                                *)
(***************************************************************************)
C24_LogEventNeverRaises == audit.raised = FALSE

(***************************************************************************)
(* C25: for every index i that save_snapshot returned, restore_snapshot(i) *)
(* reinstates the grid state (network tables, results and the system       *)
(* frequency) that was current when i was returned, whatever was saved,    *)
(* restored, validated or changed since; with an index outside the stack   *)
(* it returns false and leaves the state as it is.                         *)
(***************************************************************************)
RestoredNetwork(g, i) == RestoreSnapshot(g, i).net = g.saved[i + 1].net

RestoredFrequency(g, i) ==
    GetFrequency(RestoreSnapshot(g, i)) = BaseFrequency + g.saved[i + 1].fdev

OutsideStackIgnored(g) ==
    \A i \in {0 - 1, Len(g.snaps), Len(g.snaps) + 1} : RestoreSnapshot(g, i) = g

C25_RestoreReinstatesState ==
    /\ Len(grid.saved) = Len(grid.snaps)
    /\ \A i \in 0..(Len(grid.snaps) - 1) :
          RestoredNetwork(grid, i) /\ RestoredFrequency(grid, i)
    /\ OutsideStackIgnored(grid)

(* the same without the frequency: the network alone *)
C25_RestoreReinstatesNetwork ==
    /\ Len(grid.saved) = Len(grid.snaps)
    /\ \A i \in 0..(Len(grid.snaps) - 1) : RestoredNetwork(grid, i)
    /\ OutsideStackIgnored(grid)

(***************************************************************************)
(* C26: when the stream of a subscriber is cancelled or closed its queue   *)
(* leaves the list of its channel and every other subscriber, of the same  *)
(* and of other channels, stays listed with its queue as it was; a publish *)
(* that starts afterwards puts nothing into the queue that left; the       *)
(* subscriber is listed again only by a new subscribe, with a new queue.   *)
(***************************************************************************)
Listed(chs, sub) == chs[sub].channel # "none"

C26_CancelledSubscriberRemoved ==
    [][\A sub \in Subscribers :
          /\ Listed(channels, sub) /\ ~Listed(channels', sub) =>
                /\ published' = published
                /\ \A other \in Subscribers \ {sub} : channels'[other] = channels[other]
          /\ ~Listed(channels, sub) /\ PublishStep => channels'[sub] = channels[sub]
          /\ ~Listed(channels, sub) /\ Listed(channels', sub) =>
                channels'[sub].queue = <<>> /\ published' = published]_vars

(* a subscriber that received a message and then left, while the other     *)
(* subscriber of its channel holds a message published after it left       *)
C26_Witness ==
    \E sub \in Subscribers, other \in Subscribers :
        /\ ~Listed(channels, sub)
        /\ received[sub] # <<>>
        /\ Len(published) > registered_at[sub]
        /\ channels[other].channel = published[received[sub][1]]
        /\ published[Len(published)] = channels[other].channel
        /\ channels[other].queue # <<>>
        /\ channels[other].queue[Len(channels[other].queue)] = Len(published)

(***************************************************************************)
(* C27: register stores the record as active with registered_at and        *)
(* last_heartbeat set to the time of the call, whatever status the payload *)
(* carried and whether or not the id was known; heartbeat of a known id    *)
(* sets it active, also from stale, and sets last_heartbeat to the time of *)
(* the call; after unregister the id is not found by lookup, heartbeat or  *)
(* unregister and none of its tools is listed; heartbeat and unregister of *)
(* an unknown id report not-found and leave the store as it is.  No call   *)
(* touches the record of another id.                                       *)
(***************************************************************************)
RegistryCallStep ==
    now' = now /\ sweep_at' = sweep_at /\ (rlast' # rlast \/ servers' # servers)

OthersKept(sid) == \A other \in ServerIds \ {sid} : servers'[other] = servers[other]

NotFoundAfterwards(store, sid) ==
    /\ ~Found(store, sid)
    /\ sid \notin ListAllTools(store)
    /\ Heartbeat(store, sid, now) = store
    /\ Unregister(store, sid) = store

C27_RegistryLifecycle ==
    /\ [][RegistryCallStep =>
             /\ rlast'.op = "register" =>
                   /\ rlast'.found
                   /\ \E sid \in ServerIds :
                         /\ servers'[sid] = Registration("active", now, now)
                         /\ OthersKept(sid)
                         /\ \A status \in ServerStatuses :
                               Register(servers, sid, status, now) = servers'
             /\ rlast'.op = "heartbeat" =>
                   /\ rlast'.found = Found(servers, rlast'.server_id)
                   /\ OthersKept(rlast'.server_id)
                   /\ IF rlast'.found
                      THEN servers'[rlast'.server_id] =
                              [servers[rlast'.server_id] EXCEPT !.status = "active",
                                                                !.last_heartbeat = now]
                      ELSE servers' = servers
             /\ rlast'.op = "unregister" =>
                   /\ rlast'.found = Found(servers, rlast'.server_id)
                   /\ OthersKept(rlast'.server_id)
                   /\ NotFoundAfterwards(servers', rlast'.server_id)
                   /\ ~rlast'.found => servers' = servers]_vars
    /\ [](\A sid \in ServerIds : ~Found(servers, sid) => sid \notin ListAllTools(servers))

(* a heartbeat that made a stale endpoint active again, next to an id the  *)
(* store does not hold                                                     *)
C27_Witness ==
    /\ rlast.op = "heartbeat"
    /\ rlast.found
    /\ rlast.was = "stale"
    /\ servers[rlast.server_id].status = "active"
    /\ servers[rlast.server_id].last_heartbeat = now
    /\ servers[rlast.server_id].registered_at < now
    /\ \E other \in ServerIds : ~Found(servers, other)

(***************************************************************************)
(* Properties of the journal of the zone protection engine.                *)
(***************************************************************************)
(* an invocation of execute_safety_rules has just returned *)
EvaluationStep == hist' # hist

EscalationEntries(a) ==
    Cardinality({i \in DOMAIN a.events : a.events[i].event_type = "ESCALATION"})

EscalationEntry(zone_id) ==
    [zone_id |-> zone_id, event_type |-> "ESCALATION", details |-> "text"]

(* C28 as stated: an invocation of execute_safety_rules that returns       *)
(* escalation_required leaves the grid as it is and appends exactly one    *)
(* ESCALATION entry to the journal; an invocation that does not escalate   *)
(* appends no ESCALATION entry.                                            *)
C28_EscalationJournalledOnce ==
    [][EvaluationStep =>
          IF zlast'.status = "escalation_required"
          THEN /\ grid' = grid
               /\ audit'.events = Append(audit.events, EscalationEntry(zlast'.zone))
          ELSE EscalationEntries(audit') = EscalationEntries(audit)]_vars

(* C28, amended: an invocation that returns escalation_required leaves the *)
(* grid as it is and calls log_event once, with an ESCALATION entry of its *)
(* zone: the journal gains exactly that entry when the store accepts the   *)
(* write and nothing when the write fails; an invocation that does not     *)
(* escalate appends no ESCALATION entry.  No invocation changes or removes *)
(* an entry the journal already holds.                                     *)
C28_EscalationJournalledWhenWritable ==
    [][EvaluationStep =>
          /\ SubSeq(audit'.events, 1, Len(audit.events)) = audit.events
          /\ IF zlast'.status = "escalation_required"
             THEN /\ grid' = grid
                  /\ audit'.events =
                        IF audit.writable
                        THEN Append(audit.events, EscalationEntry(zlast'.zone))
                        ELSE audit.events
             ELSE EscalationEntries(audit') = EscalationEntries(audit)]_vars

(* an escalation journalled after the relay trips of the evaluations       *)
(* before it                                                               *)
C28_Witness ==
    /\ zlast.status = "escalation_required"
    /\ Len(audit.events) >= 2
    /\ audit.events[Len(audit.events)] = EscalationEntry(zlast.zone)
    /\ audit.events[Len(audit.events) - 1].event_type = "RELAY_TRIP"
    /\ EscalationEntries(audit) = 1

(* an escalation that left no entry because the store refused the write *)
C28_WitnessStoreRefused ==
    /\ zlast.status = "escalation_required"
    /\ ~audit.writable
    /\ EscalationEntries(audit) = 0

(***************************************************************************)
(* C29: execute_safety_rules returns escalation_required only if the two   *)
(* evaluations of the zone just before it each ended with a violation left *)
(* after their corrective actions; an evaluation whose corrective action   *)
(* cleared every violation of the zone does not count towards the          *)
(* deadband of three evaluations.                                          *)
(***************************************************************************)
C29_EscalationOnlyAfterUnresolved ==
    zlast.status = "escalation_required" =>
        LET h == hist[zlast.zone]
        IN /\ Len(h) >= EscalationDeadband
           /\ h[Len(h) - 1].unresolved
           /\ h[Len(h) - 2].unresolved

(***************************************************************************)
(* C30: when a catalog entry's endpoint has a live instance, calling the   *)
(* clean name executes the endpoint operation of the entry's original tool *)
(* name, for every tool the endpoint published, and never ends in the      *)
(* unknown-tool error.                                                     *)
(***************************************************************************)
C30_PublishedToolsDispatched ==
    route.call.live =>
        /\ route.call.original_name \in GetRegistration(route.call.server_id)
        /\ route.call.executed = CallTool(route.call.server_id, route.call.original_name)
        /\ route.call.executed # "unknown_tool"

(***************************************************************************)
(* C31: when an invocation of execute_safety_rules that does not escalate  *)
(* detects a voltage_low violation under the zone's current thresholds,    *)
(* every shunt on the zone's buses is in service when it returns; when it  *)
(* detects a voltage_high violation, every one of them is out of service;  *)
(* shunts on buses outside the zone are left as they were.                 *)
(***************************************************************************)
ZoneShunts(z) == {x \in Shunts : ShuntBus[x] \in ZoneBuses(z)}

Detected(z, type) ==
    \E v \in DetectViolations(grid, z, protection[z]) : v.type = type

C31_ShuntsFollowDetectedVoltage ==
    [][(EvaluationStep /\ zlast'.status = "executed") =>
        /\ Detected(zlast'.zone, "voltage_low") =>
              \A x \in ZoneShunts(zlast'.zone) : grid'.net.shunt[x]
        /\ Detected(zlast'.zone, "voltage_high") =>
              \A x \in ZoneShunts(zlast'.zone) : ~grid'.net.shunt[x]
        /\ \A x \in Shunts \ ZoneShunts(zlast'.zone) :
              grid'.net.shunt[x] = grid.net.shunt[x]]_vars

(***************************************************************************)
(* C32: emergency_islanding takes out of service exactly the lines with    *)
(* exactly one endpoint in the zone and leaves every other line as it was; *)
(* when the power flow that follows does not converge, the network and the *)
(* frequency are those of before the call and islanded = false is          *)
(* reported.                                                               *)
(***************************************************************************)
IslandStep == last'.op = "emergency_islanding" /\ nops' # nops

OneEndpointIn(z) ==
    {l \in Lines : Cardinality({LineFrom[l], LineTo[l]} \cap ZoneBuses(z)) = 1}

Opened(net, z) == [l \in Lines |-> net.line[l] /\ l \notin OneEndpointIn(z)]

C32_IslandingOpensTieLinesOrRestores ==
    [][IslandStep =>
        IF Converges([grid.net EXCEPT !.line = Opened(grid.net, zlast'.zone)])
        THEN /\ zlast'.status = "islanded"
             /\ grid'.net.line = Opened(grid.net, zlast'.zone)
        ELSE /\ zlast'.status = "not_islanded"
             /\ grid'.net = grid.net
             /\ grid'.fdev = grid.fdev]_vars

(* a zone with a tie-line in service next to an internal line was islanded *)
C32_Witness ==
    /\ last.op = "emergency_islanding"
    /\ zlast.status = "islanded"
    /\ zlast.zone = "zone1"
    /\ grid.net.line[0]
    /\ ~grid.net.line[1]
    /\ Len(grid.saved) > 0
    /\ grid.saved[Len(grid.saved)].net.line[1]

(* an islanding that had opened a tie-line was undone, its power flow not  *)
(* having converged                                                        *)
C32_WitnessRestored ==
    /\ last.op = "emergency_islanding"
    /\ zlast.status = "not_islanded"
    /\ zlast.zone = "zone1"
    /\ grid.net.line[1]

(***************************************************************************)
(* C33: for a component that violates before and after the sandboxed       *)
(* action (a bus voltage, a line loading or the frequency), validate_action*)
(* treats it as worsened exactly when its deviation from the nearest limit *)
(* of its own range grew by more than 5%: never when the violation moved   *)
(* closer to its limit, never when the deviation grew by less than 5% on   *)
(* every reading of "5%", always when it grew by more than 5% on every     *)
(* reading.                                                                *)
(***************************************************************************)
ViolatingBeforeAndAfter ==
    {p \in last.pre \X last.post : p[1].component = p[2].component}

GrewOnEveryReading(old, new) ==
    /\ 100 * Deviation(new) > 105 * Deviation(old)
    /\ Deviation(new) - Deviation(old) > FivePercentOfLimit(new)

C33_WorsenedIffDeviationGrew ==
    (last.op = "validate_action" /\ ~last.raised) =>
        \A p \in ViolatingBeforeAndAfter :
            /\ Deviation(p[2]) < Deviation(p[1]) => ~Worsened(p[1].value, p[2].value)
            /\ Worsened(p[1].value, p[2].value) => MeasurablyWorsened(p[1], p[2])
            /\ GrewOnEveryReading(p[1], p[2]) => Worsened(p[1].value, p[2].value)

(***************************************************************************)
(* C34: whatever the oracle replies (a verdict object, a fenced verdict,   *)
(* bare safe or unsafe, JSON that is no object, an object lacking fields,  *)
(* arbitrary text, an exception), validate_command does not raise and      *)
(* returns a record with a boolean safe field, a risk level among LOW,     *)
(* MEDIUM, HIGH and CRITICAL, and a conditions list.                       *)
(***************************************************************************)
RiskLevels == {"LOW", "MEDIUM", "HIGH", "CRITICAL"}

C34_GuardianAlwaysReturnsVerdict ==
    glast.reply \in Replies =>
        /\ ~glast.raised
        /\ glast.result.is_dict
        /\ glast.result.has_safe
        /\ glast.result.safe \in BOOLEAN
        /\ glast.result.risk_level \in RiskLevels
        /\ glast.result.conditions # "absent"

(***************************************************************************)
(* C35: when the escalation set holds a low-voltage violation, the         *)
(* directive proposes raising a generator setpoint by 10 MW clamped to the *)
(* generator's maximum and activating every capacitor bank that is out of  *)
(* service; when it holds a thermal violation, it proposes scaling one or  *)
(* two loads to 0.8; every directive proposes at least one action and      *)
(* names only devices of the grid.                                         *)
(***************************************************************************)
EscalateStep == mon.pc = "await" /\ mon'.pc = "agent"

LowVoltageEscalated ==
    \E v \in mon.escalations : v.violation_type = "voltage" /\ Lt(v.current_value, VMin)

ThermalEscalated == \E v \in mon.escalations : v.violation_type = "thermal"

DeviceExists(a) ==
    CASE a.device_kind = "gen" -> a.device_id \in Gens
      [] a.device_kind = "shunt" -> a.device_id \in Shunts
      [] OTHER -> a.device_id \in DOMAIN grid.net.load

C35_DirectiveProposesCorrectiveActions ==
    [][EscalateStep =>
        /\ LowVoltageEscalated =>
              /\ \E x \in Gens :
                    Proposal("gen", x, "set_output",
                             Min((grid.net.gen[x] + 1) * RaiseMW, MaxGen * RaiseMW))
                        \in BuildDirective(grid, mon.escalations)
              /\ \A x \in Shunts :
                    ~grid.net.shunt[x] =>
                        Proposal("shunt", x, "activate", 0)
                            \in BuildDirective(grid, mon.escalations)
        /\ ThermalEscalated =>
              Cardinality({a \in BuildDirective(grid, mon.escalations) :
                              a.action = "scale" /\ a.amount = ScalePct}) \in {1, 2}
        /\ BuildDirective(grid, mon.escalations) # {}
        /\ \A a \in BuildDirective(grid, mon.escalations) : DeviceExists(a)]_vars

(***************************************************************************)
(* C36: whatever charge, discharge, stop and emergency_stop actions the    *)
(* storage server executes, the state of charge of every unit stays        *)
(* between 0 and 1; a discharge requested while the unit is at or below    *)
(* 5 % is refused with success = false and changes neither the unit's      *)
(* state of charge and power nor the grid.                                 *)
(***************************************************************************)
ControlStep == nops' = nops + 1

StorageExecuted ==
    /\ ControlStep
    /\ clast'.c.kind = "energy_storage"
    /\ clast'.c.id \in StorageUnits
    /\ clast'.executed

DischargeAtLowSoc ==
    /\ StorageExecuted
    /\ clast'.c.action = "discharge"
    /\ storage[clast'.c.id].soc <= LowSoc

(* what _execute_action was handed: the grid as it was, or as the sandbox  *)
(* run before it left it                                                   *)
GridHanded ==
    IF clast'.validate THEN StorageValidateInSandbox(grid, clast'.c).g ELSE grid

C36_SocBoundedAndLowDischargeRefused ==
    /\ [](\A u \in StorageUnits : storage[u].soc \in 0..FullSoc)
    /\ [][DischargeAtLowSoc =>
            /\ ~clast'.success
            /\ storage' = storage
            /\ grid' = GridHanded]_vars

(* a discharge was refused at 5 % after an earlier discharge had brought   *)
(* the unit there                                                          *)
C36_Witness ==
    /\ clast.c = StorageCommand("storage_0", "discharge", 1)
    /\ clast.executed /\ ~clast.success
    /\ storage["storage_0"].soc = LowSoc
    /\ storage["storage_0"].current_mw > 0

(* a charge has filled a unit that was one step below full *)
C36_WitnessFull ==
    /\ clast.c = StorageCommand("storage_0", "charge", None)
    /\ clast.success
    /\ storage["storage_0"].soc = FullSoc
    /\ storage["storage_0"].current_mw = 0 - MaxPowerMw["storage_0"]

(***************************************************************************)
(* C37: for every actuator kind and every action of its action set, the    *)
(* mutation that _validate_in_sandbox applies inside the sandbox is the    *)
(* mutation that _execute_action commits for the same arguments (same      *)
(* target device, same resulting setpoint, status or load delta), so a     *)
(* control call with validate = true never commits a change that it did    *)
(* not validate.                                                           *)
(***************************************************************************)
(* the entries of the device tables in which net n1 differs from n0: the   *)
(* new setpoint or status of a generator, shunt or line, the delta of a    *)
(* load                                                                    *)
LoadOf(n, i) == IF i \in DOMAIN n.load THEN n.load[i] ELSE 0

Mutation(n0, n1) ==
    {<<"gen", i, n1.gen[i]>> : i \in {x \in Gens : n1.gen[x] # n0.gen[x]}}
    \cup {<<"shunt", i, n1.shunt[i]>> : i \in {x \in Shunts : n1.shunt[x] # n0.shunt[x]}}
    \cup {<<"line", i, n1.line[i]>> : i \in {x \in Lines : n1.line[x] # n0.line[x]}}
    \cup {<<"load", i, n1.load[i] - LoadOf(n0, i)>> :
             i \in {x \in DOMAIN n1.load : n1.load[x] # LoadOf(n0, x)}}

(* the callable the endpoint of command c validates *)
SandboxCallOf(g, c) ==
    IF c.kind = "energy_storage" THEN StorageSandboxCall(c) ELSE SandboxCall(g, c)

(* what the sandbox run of the latest call changed, and what the call      *)
(* committed                                                               *)
ValidatedMutation == Mutation(grid.net, Apply(SaveSnapshot(grid), SandboxCallOf(grid, clast'.c)).net)
CommittedMutation == Mutation(grid.net, grid'.net)

ValidatedAndExecuted ==
    /\ ControlStep
    /\ clast'.validate
    /\ clast'.executed
    /\ clast'.success

C37_CommitsWhatWasValidated ==
    [][ValidatedAndExecuted => CommittedMutation = ValidatedMutation]_vars

(* the kinds and actions for which the two agree *)
AgreeingActions ==
    [][(ValidatedAndExecuted /\ CommittedMutation # ValidatedMutation) =>
          \/ clast'.c.kind = "generator" /\ clast'.c.action \in {"ramp", "emergency_stop"}
          \/ clast'.c.kind = "load_controller" /\ clast'.c.action \in {"restore", "emergency_stop"}
          \/ clast'.c.kind = "energy_storage" /\ clast'.c.action \in {"charge", "discharge"}]_vars

(***************************************************************************)
(* C38: validate_action leaves the snapshot stack as it found it: the      *)
(* number of stored snapshots after the call equals the number before, so  *)
(* the length of the stack is bounded by the number of explicit            *)
(* save_snapshot calls.                                                    *)
(***************************************************************************)
ValidationStep == nops' = nops + 1 /\ last'.op = "validate_action"

C38_ValidationKeepsStackLength ==
    [][ValidationStep => Len(grid'.snaps) = Len(grid.snaps)]_vars

(* what the code does instead: the snapshot of the sandbox stays on top of *)
(* the stack, and the snapshots below it are as they were                  *)
ValidationPushesSnapshot ==
    [][ValidationStep =>
          /\ Len(grid'.snaps) = Len(grid.snaps) + 1
          /\ SubSeq(grid'.snaps, 1, Len(grid.snaps)) = grid.snaps]_vars

====
